---- MODULE Spec2Model ----
(***************************************************************************)
(* Model of res_unet/seg_images_in_folder.py (Segmentation Gym).           *)
(*                                                                         *)
(* Spec     : the script from the output-directory setup (line 558) to the *)
(*            end of the per-file loop (line 814), run up to MaxRuns times *)
(*            over the same sample directory.  Pixel data is abstracted;   *)
(*            what is kept is the file system, the file list, the position *)
(*            in the loop body, the oracle calls and the uncaught errors.  *)
(*                                                                         *)
(* SpecBin  : the array work of the binary path on one image, from the    *)
(*            resized ensemble (line 643) to the final mask (line 691).    *)
(* SpecAvg  : the same steps started from ensembles of several members.    *)
(* SpecTTA  : the construction of the ensemble of one image (lines 622 to  *)
(*            640) for each TARGET_SIZE the network can be built for.      *)
(* SpecStd  : one call of standardize (lines 192-204) on a small array.    *)
(* SpecLoad : one call of a loader (lines 381-484) for each kind of file   *)
(*            name and each state of the companion file.                   *)
(* SpecResize : the same call for each source size and target size.        *)
(* SpecMulti : the array work of the multiclass path on one image, from    *)
(*            the oracle's output (line 766) to the label map (line 778).  *)
(* SpecColour : one call of label_to_colors (lines 492-531, 780-785).      *)
(* SpecRoll : the rolled inputs of the shifted members (lines 630-638).    *)
(* SpecOneHot : res_unet/model_training/make_dataset.py, the label image  *)
(*            of one pair in the 1-3 band path (lines 296-358).            *)
(*                                                                         *)
(* Numbers.  A probability is an integer number of fine units; Unit fine   *)
(* units are 1.0.  An oracle output is a multiple of 1/Scale.  All          *)
(* arithmetic is exact; floating-point rounding is not modelled.  NaN and  *)
(* Inf are two values outside the number line with numpy's rules.          *)
(*                                                                         *)
(* Conventions.  A path of the sample directory is a record                *)
(* [stem, ext]; an output path is a record [dir, stem, tail] where tail is *)
(* what follows the stem in the file name.  sample_direc is taken to be in *)
(* os.path.normpath form already (what Tk's askdirectory returns on        *)
(* POSIX), so that the str.replace of the directory always matches.  The   *)
(* stems and the directory name are taken not to contain '.jpg' / '.png';  *)
(* the directory name may contain the bare substring 'jpg' (direcHasJpg).  *)
(***************************************************************************)
EXTENDS Integers, Sequences, FiniteSets, TLC

\* ---------------------------------------------------------------- bounds
MaxStems == 2
MaxRuns == 2

\* ------------------------------------------------------ program constants
\* np.linspace(100, int(TARGET_SIZE[0]), 10): ten offsets per direction
NShifts == 10

Stems == 1..MaxStems
Exts == {"jpg", "png"}
Paths == [stem : Stems, ext : Exts]
OutDirs == {"masks", "masked", "conf_var", "probs"}
\* the order of the four os.mkdir calls inside the single try block
MkdirOrder == <<"masks", "masked", "conf_var", "probs">>

VARIABLES
    NCLASSES,           \* config: 1 = binary path, > 1 = multiclass path
    N_DATA_BANDS,       \* config: <= 3 uses the 3-band loader, else the 4-band
    direcHasJpg,        \* the sample directory's path contains 'jpg'
    inputs,             \* the image files lying in the sample directory
    dirs,               \* which of the four output subdirectories exist
    fs,                 \* output files: [dir, stem, tail] -> what was saved
    run,                \* number of the current run of the script
    pc,                 \* position in the script
    sample_filenames,   \* the sorted listing (line 582-584)
    counter,            \* enumerate index of the current file (0-based)
    reached,            \* files the loop body was entered for in this run
    outcome,            \* this run: path -> "skipped" | "processed"
    calls,              \* this run: path -> number of model.predict calls
    cleared,            \* this run: path -> number of K.clear_session calls
    error,              \* what raised the uncaught exception, or "none"
    \* ---- one image in the binary path (SpecBin, SpecAvg)
    w,                  \* tf.shape(bigimage)[0]: number of rows
    h,                  \* tf.shape(bigimage)[1]: number of columns
    E,                  \* the list of (resized) member predictions
    W,                  \* the list of member weights
    est_label,          \* the combined map, later the mask
    thres,              \* the threshold
    conf,               \* the confidence map
    mask_in,            \* the array handed to remove_small_holes
    ipc,                \* position in the array work
    \* ---- the ensemble construction of one image (SpecTTA)
    TARGET_SIZE,        \* TARGET_SIZE[0] of the configuration
    ki,                 \* number of iterations done in the current k loop
    \* ---- one call of standardize (SpecStd)
    image,              \* the array handed to standardize (line 620)
    img,                \* standardize's img
    spc,                \* position in standardize
    \* ---- one call of seg_file2tensor_3band / _4band (SpecLoad, SpecResize)
    file,               \* the loader's argument f
    disk,               \* the paths that exist
    tw,                 \* TARGET_SIZE[0]
    th,                 \* TARGET_SIZE[1]
    bigimage,           \* the decoded image: decoder used, source of each band
    nw,                 \* tf.shape(image)[0] after the resize
    nh,                 \* tf.shape(image)[1] after the resize
    crop,               \* the offsets handed to crop_to_bounding_box
    load_error,         \* the exception the loader raised, or "none"
    lpc,                \* position in the loader
    \* ---- the array work of the multiclass path (SpecMulti, SpecColour)
    prediction,         \* model.predict(...).squeeze() of line 766
    mask,               \* label_to_colors' mask: bigimage[:,:,0]==0
    color_label,        \* the colour image
    \* ---- make_dataset.py: one label image in the 1-3 band path (SpecOneHot)
    l,                  \* the label image of line 296
    lstack,             \* the one-hot stack of lines 318-326
    dpc                 \* position in the encoding, or "idle"

loopVars == <<NCLASSES, N_DATA_BANDS, direcHasJpg, inputs, dirs, fs, run, pc,
              sample_filenames, counter, reached, outcome, calls, cleared, error>>

imageVars == <<w, h, E, W, est_label, thres, conf, mask_in, ipc, TARGET_SIZE, ki>>

stdVars == <<image, img, spc>>

\* the variables of the specifications of one function each
loadVars == <<file, disk, tw, th, bigimage, nw, nh, crop, load_error, lpc>>

multiVars == <<prediction, mask, color_label>>

unitVars == <<stdVars, loadVars, multiVars>>

datasetVars == <<l, lstack, dpc>>

vars == <<loopVars, imageVars, unitVars, datasetVars>>

\* what the per-file loop of Spec never changes: the configuration, and the
\* variables of the image-level specifications
config == <<NCLASSES, N_DATA_BANDS, direcHasJpg, inputs, imageVars, unitVars, datasetVars>>

\* ------------------------------------------------------------ file names
\* the substring test  'jpg' in f  (lines 394, 443, 591, 650, 735, 795, 803)
HasJpg(f) == direcHasJpg \/ f.ext = "jpg"

\* f.replace('.jpg', suffix) if 'jpg' in f, else f.replace('.png', suffix):
\* the tail of the resulting file name.  str.replace changes nothing when
\* the pattern does not occur, so a .png below a 'jpg' directory keeps its
\* own name.
OutTail(f, suffix) ==
    IF HasJpg(f)
    THEN IF f.ext = "jpg" THEN suffix ELSE ".png"
    ELSE suffix

\* np.savez appends '.npz' to a file name that does not end with it
SavezTail(tail) == IF tail = ".png" THEN ".png.npz" ELSE tail

OutPath(dir, f, suffix) == [dir |-> dir, stem |-> f.stem, tail |-> OutTail(f, suffix)]

NpzPath(dir, f, suffix) ==
    [dir |-> dir, stem |-> f.stem, tail |-> SavezTail(OutTail(f, suffix))]

\* segfile (lines 591-597 and 735-741)
Segfile(f) == OutPath("masks", f, "_predseg.png")

Exists(p) == p \in DOMAIN fs

\* a write creates or overwrites the file at path p
Saved(store, p, what) ==
    [q \in (DOMAIN store) \cup {p} |-> IF q = p THEN what ELSE store[q]]

\* ------------------------------------------------------------ the listing
RECURSIVE SortedSeq(_)
SortedSeq(S) ==
    IF S = {} THEN <<>>
    ELSE LET m == CHOOSE x \in S : \A y \in S : x.stem <= y.stem
         IN <<m>> \o SortedSeq(S \ {m})

Glob(ext) == {f \in inputs : f.ext = ext}

\* sorted(glob('*.jpg')), and only when that is empty sorted(glob('*.png'))
Listing == IF Glob("jpg") # {} THEN SortedSeq(Glob("jpg")) ELSE SortedSeq(Glob("png"))

\* the file the loop is at
Cur == sample_filenames[counter + 1]

\* os.mkdir x 4 in one try block: the first failure skips the rest
RECURSIVE MkdirAll(_, _)
MkdirAll(have, i) ==
    IF i > Len(MkdirOrder) THEN have
    ELSE IF MkdirOrder[i] \in have THEN have
    ELSE MkdirAll(have \cup {MkdirOrder[i]}, i + 1)


\* --------------------------------------------------------------- choices
ClassChoices == {1, 3}
BandChoices == {3, 4}

NoFiles == [p \in {} |-> "none"]
NoCalls == [f \in Paths |-> 0]

\* 1 + 10 + 10 forward passes in the binary path (lines 623, 632, 637),
\* one in the multiclass path (line 766)
PassesNeeded == IF NCLASSES = 1 THEN 1 + 2 * NShifts ELSE 1

\* no call of standardize in work
StdIdle ==
    /\ image = <<>>
    /\ img = <<>>
    /\ spc = "idle"

\* the variables of the function-level specifications, at rest
\* no call of a loader in work
LoadIdle ==
    /\ file = <<>>
    /\ disk = {}
    /\ tw = 0
    /\ th = 0
    /\ bigimage = <<>>
    /\ nw = 0
    /\ nh = 0
    /\ crop = <<>>
    /\ load_error = "none"
    /\ lpc = "idle"

\* no multiclass array work in progress
MultiIdle ==
    /\ prediction = <<>>
    /\ mask = <<>>
    /\ color_label = <<>>

UnitIdle == StdIdle /\ LoadIdle /\ MultiIdle

\* no label image of the dataset builder in work
DatasetIdle ==
    /\ l = <<>>
    /\ lstack = <<>>
    /\ dpc = "idle"

\* the image-level variables while the loop is modelled
ImageIdle ==
    /\ w = 0
    /\ h = 0
    /\ E = <<>>
    /\ W = <<>>
    /\ est_label = <<>>
    /\ thres = 0
    /\ conf = <<>>
    /\ mask_in = <<>>
    /\ ipc = "idle"
    /\ TARGET_SIZE = 0
    /\ ki = 0

Init ==
    /\ DatasetIdle
    /\ ImageIdle
    /\ UnitIdle
    /\ NCLASSES \in ClassChoices
    /\ N_DATA_BANDS \in BandChoices
    /\ direcHasJpg \in BOOLEAN
    /\ inputs \in SUBSET Paths
    /\ dirs \in SUBSET OutDirs
    /\ fs = NoFiles
    /\ run = 1
    /\ pc = "setup"
    /\ sample_filenames = <<>>
    /\ counter = 0
    /\ reached = {}
    /\ outcome = NoFiles
    /\ calls = NoCalls
    /\ cleared = NoCalls
    /\ error = "none"

\* ------------------------------------------------------- control helpers
\* the loop body ended normally for Cur: go to the next file or finish
NextFile(how) ==
    /\ outcome' = Saved(outcome, Cur, how)
    /\ counter' = counter + 1
    /\ pc' = IF counter + 1 < Len(sample_filenames) THEN "check" ELSE "done"

\* an exception nothing catches: the script ends with a traceback
Raise(what) ==
    /\ pc' = "aborted"
    /\ error' = what

\* a write into one of the four subdirectories; it raises when the
\* directory is missing
CanWrite(p) == p.dir \in dirs

\* ----------------------------------------------------------------- steps
\* lines 558-565
MakeDirs ==
    /\ pc = "setup"
    /\ dirs' = MkdirAll(dirs, 1)
    /\ pc' = "list"
    /\ UNCHANGED <<config, fs, run, sample_filenames, counter, reached,
                   outcome, calls, cleared, error>>

\* lines 582-588
ListFiles ==
    /\ pc = "list"
    /\ sample_filenames' = Listing
    /\ counter' = 0
    /\ pc' = IF Len(Listing) > 0 THEN "check" ELSE "done"
    /\ UNCHANGED <<config, dirs, fs, run, reached, outcome, calls, cleared, error>>

\* SkipTest looking below masked/ instead of masks/
SkipTestWrongDir(f) == Exists(OutPath("masked", f, "_predseg.png"))

\* the os.path.exists test of lines 598 and 742
SkipTest(f) == Exists(Segfile(f))

\* lines 590-600, 735-744: the mask exists, continue
SkipFile ==
    /\ pc = "check"
    /\ SkipTest(Cur)
    /\ reached' = reached \cup {Cur}
    /\ NextFile("skipped")
    /\ UNCHANGED <<config, dirs, fs, run, sample_filenames, calls, cleared, error>>

\* lines 601-604, 745-748: the mask does not exist, create it
EnterFile ==
    /\ pc = "check"
    /\ ~SkipTest(Cur)
    /\ reached' = reached \cup {Cur}
    /\ pc' = "load"
    /\ UNCHANGED <<config, dirs, fs, run, sample_filenames, counter, outcome,
                   calls, cleared, error>>

\* what can raise inside seg_file2tensor_3band / seg_file2tensor_4band and
\* standardize: an undecodable file, and with more than 3 bands the
\* tf.io.read_file of a companion that is not there
LoadFailures == {"decode"} \cup (IF N_DATA_BANDS > 3 THEN {"missing_nir"} ELSE {})

\* lines 606-620, 750-764
LoadImage ==
    /\ pc = "load"
    /\ \/ pc' = "predict" /\ UNCHANGED error
       \/ \E why \in LoadFailures : Raise(why)
    /\ UNCHANGED <<config, dirs, fs, run, sample_filenames, counter, reached,
                   outcome, calls, cleared>>

\* Predict without the K.clear_session of lines 640 and 767
PredictNoClear ==
    /\ pc = "predict"
    /\ \/ /\ calls' = [calls EXCEPT ![Cur] = PassesNeeded]
          /\ pc' = IF NCLASSES = 1 THEN "write_prob_npz" ELSE "postprocess"
          /\ UNCHANGED error
       \/ \E done \in 0..(PassesNeeded - 1) :
             /\ calls' = [calls EXCEPT ![Cur] = done]
             /\ Raise("oracle")
    /\ UNCHANGED <<config, dirs, fs, run, sample_filenames, counter, reached,
                   outcome, cleared>>

\* lines 622-640 (binary: 21 passes, then K.clear_session) and 766-767
\* (multiclass: one pass, then K.clear_session).  A pass that raises ends
\* the script after `done` completed passes, before the session is cleared.
Predict ==
    /\ pc = "predict"
    /\ \/ /\ calls' = [calls EXCEPT ![Cur] = PassesNeeded]
          /\ cleared' = [cleared EXCEPT ![Cur] = @ + 1]
          /\ pc' = IF NCLASSES = 1 THEN "write_prob_npz" ELSE "postprocess"
          /\ UNCHANGED error
       \/ \E done \in 0..(PassesNeeded - 1) :
             /\ calls' = [calls EXCEPT ![Cur] = done]
             /\ Raise("oracle")
             /\ UNCHANGED cleared
    /\ UNCHANGED <<config, dirs, fs, run, sample_filenames, counter, reached, outcome>>

\* one artifact write: np.savez / imsave of `what` at path p, then on to
\* the step `then`
WriteStep(p, what, then) ==
    IF CanWrite(p)
    THEN /\ fs' = Saved(fs, p, what)
         /\ pc' = then
         /\ UNCHANGED error
    ELSE /\ Raise("write")
         /\ UNCHANGED fs

\* lines 650-656
WriteProbNpz ==
    /\ pc = "write_prob_npz"
    /\ WriteStep(NpzPath("probs", Cur, "_prob.npz"), "prob", "write_prob_tif")
    /\ UNCHANGED <<config, dirs, run, sample_filenames, counter, reached,
                   outcome, calls, cleared>>

\* lines 658-664.  The data is a float array with values up to 255: the
\* tif writer takes it, a png writer (the name kept by a .png below a 'jpg'
\* directory) may refuse it, depending on the skimage.io plugin.
WriteProbTif ==
    /\ pc = "write_prob_tif"
    /\ LET p == OutPath("probs", Cur, "_prob.tif")
       IN \/ WriteStep(p, "probtif", "postprocess")
          \/ /\ p.tail = ".png"
             /\ Raise("write")
             /\ UNCHANGED fs
    /\ UNCHANGED <<config, dirs, run, sample_filenames, counter, reached,
                   outcome, calls, cleared>>

\* lines 666-691 (threshold, confidence, mask cleaning) and 769-785
\* (max filter, resize, argmax, colours): array work that may raise
PostProcess ==
    /\ pc = "postprocess"
    /\ \/ pc' = "write_mask" /\ UNCHANGED error
       \/ Raise("filter")
    /\ UNCHANGED <<config, dirs, fs, run, sample_filenames, counter, reached,
                   outcome, calls, cleared>>

\* lines 697 and 791
WriteMask ==
    /\ pc = "write_mask"
    /\ WriteStep(Segfile(Cur), "mask", "write_conf")
    /\ UNCHANGED <<config, dirs, run, sample_filenames, counter, reached,
                   outcome, calls, cleared>>

\* lines 699-705 and 795-801
WriteConf ==
    /\ pc = "write_conf"
    /\ WriteStep(NpzPath("conf_var", Cur, "_conf.npz"), "conf",
                 IF NCLASSES = 1 THEN "write_var" ELSE "write_colour")
    /\ UNCHANGED <<config, dirs, run, sample_filenames, counter, reached,
                   outcome, calls, cleared>>

\* WriteVar saving under the confidence map's name
WriteVarAsConf ==
    /\ pc = "write_var"
    /\ WriteStep(NpzPath("conf_var", Cur, "_conf.npz"), "var", "write_overlay")
    /\ UNCHANGED <<config, dirs, run, sample_filenames, counter, reached,
                   outcome, calls, cleared>>

\* lines 707-713
WriteVar ==
    /\ pc = "write_var"
    /\ WriteStep(NpzPath("conf_var", Cur, "_var.npz"), "var", "write_overlay")
    /\ UNCHANGED <<config, dirs, run, sample_filenames, counter, reached,
                   outcome, calls, cleared>>

\* lines 715-727: imsave in a try block; the except branch stacks the image
\* to three bands and calls imsave once more, outside any try
WriteOverlay ==
    /\ pc = "write_overlay"
    /\ LET p == OutPath("masked", Cur, "_segoverlay.tif")
       IN \/ /\ CanWrite(p)                  \* first imsave succeeds
             /\ fs' = Saved(fs, p, "overlay")
             /\ NextFile("processed")
             /\ UNCHANGED error
          \/ /\ CanWrite(p)                  \* first raises, second succeeds
             /\ fs' = Saved(fs, p, "overlay")
             /\ NextFile("processed")
             /\ UNCHANGED error
          \/ /\ Raise("write")               \* both raise
             /\ UNCHANGED <<fs, counter, outcome>>
    /\ UNCHANGED <<config, dirs, run, sample_filenames, reached, calls, cleared>>

\* lines 803-810
WriteColour ==
    /\ pc = "write_colour"
    /\ LET p == OutPath("masked", Cur, "_predseg_col.png")
       IN IF CanWrite(p)
          THEN /\ fs' = Saved(fs, p, "colour")
               /\ NextFile("processed")
               /\ UNCHANGED error
          ELSE /\ Raise("write")
               /\ UNCHANGED <<fs, counter, outcome>>
    /\ UNCHANGED <<config, dirs, run, sample_filenames, reached, calls, cleared>>

RunEnded == pc \in {"done", "aborted"}

\* the script is started again on the same directory
RunAgain ==
    /\ RunEnded
    /\ run < MaxRuns
    /\ run' = run + 1
    /\ pc' = "setup"
    /\ sample_filenames' = <<>>
    /\ counter' = 0
    /\ reached' = {}
    /\ outcome' = NoFiles
    /\ calls' = NoCalls
    /\ cleared' = NoCalls
    /\ error' = "none"
    /\ UNCHANGED <<config, dirs, fs>>

Next ==
    \/ MakeDirs
    \/ ListFiles
    \/ SkipFile
    \/ EnterFile
    \/ LoadImage
    \/ Predict
    \/ WriteProbNpz
    \/ WriteProbTif
    \/ PostProcess
    \/ WriteMask
    \/ WriteConf
    \/ WriteVar
    \/ WriteOverlay
    \/ WriteColour
    \/ RunAgain

Spec == Init /\ [][Next]_vars


\* ======================================================================
\* Claims about the per-file loop (checked under Spec)
\* ======================================================================

\* a .png whose path holds 'jpg' elsewhere: the 'jpg' branch is taken and
\* its str.replace('.jpg', ...) changes nothing
Misnamed(f) == f.ext = "png" /\ direcHasJpg

\* some file of directory dir belonging to input f holds `what`
Has(f, dir, what) ==
    \E p \in DOMAIN fs : p.dir = dir /\ p.stem = f.stem /\ fs[p] = what

Processed(f) == f \in DOMAIN outcome /\ outcome[f] = "processed"
Skipped(f) == f \in DOMAIN outcome /\ outcome[f] = "skipped"

\* C1: when the loop reaches a file whose target mask (segfile) exists, the
\* step taken skips the file: no output file is created or overwritten, the
\* oracle is not called and its session not cleared, and the loop is at the
\* next file (or finished) with the file recorded as skipped.
C1_SkipIfExists ==
    [][ (pc = "check" /\ Exists(Segfile(Cur))) =>
            /\ fs' = fs
            /\ calls' = calls
            /\ cleared' = cleared
            /\ counter' = counter + 1
            /\ pc' \in {"check", "done"}
            /\ outcome'[Cur] = "skipped" ]_vars

\* C1 witness: in a second run a file was skipped because the first run
\* had written its mask; the oracle was not called for it in this run.
C1_Witness ==
    \E f \in DOMAIN outcome :
        /\ outcome[f] = "skipped"
        /\ Exists(Segfile(f))
        /\ calls[f] = 0
        /\ run = 2

\* the failures the claim C2 names: decoding, missing companion, a filter,
\* the oracle
ProcessingErrors == {"decode", "missing_nir", "filter", "oracle"}

\* C2 (as claimed): a processing failure on one file is caught at the file
\* level, so whenever a run has ended, with or without such a failure,
\* every file of the listing was reached by the loop in that run.
C2_FailureIsCaught ==
    (RunEnded /\ error \in ProcessingErrors \cup {"none"}) =>
        \A i \in 1..Len(sample_filenames) : sample_filenames[i] \in reached

\* C3 (as claimed): every file processed without error has, when the loop
\* moves on, its mask, its visualization, its confidence map, its variance
\* map and its probability map (npz and tif), in both paths.
C3_AllArtifacts ==
    \A f \in DOMAIN outcome :
        outcome[f] = "processed" =>
            /\ Has(f, "masks", "mask")
            /\ Has(f, "masked", "overlay") \/ Has(f, "masked", "colour")
            /\ Has(f, "conf_var", "conf")
            /\ Has(f, "conf_var", "var")
            /\ Has(f, "probs", "prob")
            /\ Has(f, "probs", "probtif")

\* C3 (amended): for every file processed without error, when the loop
\* moves on: in the binary path the mask, the overlay, the variance map and
\* the probability map (npz and tif) are written, and so is the confidence
\* map unless the file's outputs keep the input's name (Misnamed), where
\* the variance map is saved over it; with the extension test matching,
\* the six files carry their documented names.  In the multiclass path the
\* mask, the colour image and the confidence map are written, and neither
\* a variance map nor a probability map.
C3_ArtifactsPerPath ==
    \A f \in DOMAIN outcome :
        outcome[f] = "processed" =>
            IF NCLASSES = 1
            THEN /\ Has(f, "masks", "mask")
                 /\ Has(f, "masked", "overlay")
                 /\ Has(f, "conf_var", "var")
                 /\ Has(f, "probs", "prob")
                 /\ Has(f, "probs", "probtif")
                 /\ Has(f, "conf_var", "conf") <=> ~Misnamed(f)
                 /\ ~Misnamed(f) =>
                      \A t \in {<<"masks", "_predseg.png", "mask">>,
                                <<"masked", "_segoverlay.tif", "overlay">>,
                                <<"conf_var", "_conf.npz", "conf">>,
                                <<"conf_var", "_var.npz", "var">>,
                                <<"probs", "_prob.npz", "prob">>,
                                <<"probs", "_prob.tif", "probtif">>} :
                          LET p == [dir |-> t[1], stem |-> f.stem, tail |-> t[2]]
                          IN Exists(p) /\ fs[p] = t[3]
            ELSE /\ Has(f, "masks", "mask")
                 /\ Has(f, "masked", "colour")
                 /\ Has(f, "conf_var", "conf")
                 /\ ~Has(f, "conf_var", "var")
                 /\ ~Has(f, "probs", "prob")
                 /\ ~Has(f, "probs", "probtif")

\* C3 witness: a run that processed one file in the multiclass path and is
\* past it, with the mask, the confidence map and the colour image on disk.
C3_Witness ==
    \E f \in DOMAIN outcome :
        /\ outcome[f] = "processed"
        /\ NCLASSES > 1
        /\ calls[f] = 1
        /\ Has(f, "masked", "colour")


\* ======================================================================
\* The array work of the binary path on one image (lines 643-691)
\* ======================================================================

\* ---------------------------------------------------------------- bounds
\* oracle outputs are multiples of 1/Scale
Scale == 32
\* an image has at most MaxCells pixels
MaxCells == 4
\* SpecAvg: an ensemble has at most MaxMembers members, with weights 1..MaxWeight
MaxMembers == 2
MaxWeight == 2

\* ------------------------------------------------------ program constants
\* threshold_otsu(est_label): the histogram has skimage's default 256 bins
NBins == 256

\* float values outside the number line
NaN == 0 - 1
Inf == 0 - 2
NegInf == 0 - 3
Finite(v) == v >= 0

\* the oracle outputs drawn: 0, 1/4, 7/16, 21/32, 3/4, 1 (and NaN, Inf)
Levels == {0, 8, 14, 21, 24, 32}
OracleValues == Levels \cup {NaN, Inf}

Pixels == 1..(w * h)

RECURSIVE SumSeq(_)
SumSeq(q) == IF q = <<>> THEN 0 ELSE Head(q) + SumSeq(Tail(q))

\* the number of fine units that make 1.0
Unit == 2 * NBins * Scale * SumSeq(W)
\* the literals .5 and .75 of lines 666-672
Half == Unit \div 2
ThreeQuarters == (3 * Unit) \div 4

\* sum over the members 1..i of W[i] * E[i][p]
RECURSIVE WeightedSum(_, _)
WeightedSum(p, i) ==
    IF i = 0 THEN 0 ELSE W[i] * E[i][p] + WeightedSum(p, i - 1)

\* Average with the weights ignored where the members agree in number:
\* np.mean(np.dstack(E), axis=-1) scaled to the same unit (exact when the
\* weight sum is a multiple of the member count, truncated otherwise)
RECURSIVE PlainSum(_, _)
PlainSum(p, i) == IF i = 0 THEN 0 ELSE E[i][p] + PlainSum(p, i - 1)
AverageUnweighted(p) ==
    IF \E i \in 1..Len(E) : E[i][p] = NaN THEN NaN
    ELSE IF \E i \in 1..Len(E) : E[i][p] = Inf THEN Inf
    ELSE (2 * NBins * PlainSum(p, Len(E)) * SumSeq(W)) \div Len(E)

\* np.average(np.dstack(E), axis=-1, weights=np.array(W)) at pixel p:
\* sum(W[i]*E[i][p]) / sum(W), in fine units
Average(p) ==
    IF \E i \in 1..Len(E) : E[i][p] = NaN THEN NaN
    ELSE IF \E i \in 1..Len(E) : E[i][p] = Inf THEN Inf
    ELSE 2 * NBins * WeightedSum(p, Len(E))

\* ------------------------------------------------------------- threshold
FiniteValues(m) == {m[p] : p \in {q \in DOMAIN m : Finite(m[q])}}
MaxOf(m) == CHOOSE v \in FiniteValues(m) : \A u \in FiniteValues(m) : u <= v
MinOf(m) == CHOOSE v \in FiniteValues(m) : \A u \in FiniteValues(m) : v <= u
HasNaN(m) == \E p \in DOMAIN m : m[p] = NaN
HasInf(m) == \E p \in DOMAIN m : m[p] = Inf

\* WideRange with >= in place of >
WideRangeInclusive(m) ==
    IF HasNaN(m) THEN FALSE
    ELSE IF HasInf(m) THEN FiniteValues(m) # {}
    ELSE MaxOf(m) - MinOf(m) >= Half

\* np.max(est_label)-np.min(est_label) > .5 ; a NaN operand (a NaN pixel,
\* or inf - inf) makes the comparison False
WideRange(m) ==
    IF HasNaN(m) THEN FALSE
    ELSE IF HasInf(m) THEN FiniteValues(m) # {}
    ELSE MaxOf(m) - MinOf(m) > Half

\* np.histogram over [min, max] with NBins equal bins, the last one closed
BinOf(m, p) ==
    IF m[p] = MaxOf(m) THEN NBins - 1
    ELSE ((m[p] - MinOf(m)) * NBins) \div (MaxOf(m) - MinOf(m))

RECURSIVE SumBins(_, _)
SumBins(m, S) ==
    IF S = {} THEN 0
    ELSE LET p == CHOOSE q \in S : TRUE IN BinOf(m, p) + SumBins(m, S \ {p})

\* weight1[idx]*weight2[idx+1]*(mean1[idx]-mean2[idx+1])**2 as a fraction
\* <<numerator, denominator>>, up to the positive factor (bin width)**2
\* that every idx shares (bin centres are an affine function of the index)
Variance12(m, idx) ==
    LET lo == {p \in DOMAIN m : BinOf(m, p) <= idx}
        hi == (DOMAIN m) \ lo
        d  == SumBins(m, lo) * Cardinality(hi) - SumBins(m, hi) * Cardinality(lo)
    IN <<d * d, Cardinality(lo) * Cardinality(hi)>>

\* idx = np.argmax(variance12): the first index of the largest value.  The
\* value does not change across empty bins, so the first maximum is at an
\* occupied bin; the last bin is not a candidate (variance12 has NBins-1
\* entries).
OtsuIndex(m) ==
    LET cand == {BinOf(m, p) : p \in DOMAIN m} \ {NBins - 1}
        Less(a, b) == a[1] * b[2] < b[1] * a[2]
        best == {i \in cand : \A j \in cand : ~Less(Variance12(m, i), Variance12(m, j))}
    IN CHOOSE i \in best : \A j \in best : i <= j

\* threshold_otsu: the centre of bin idx
ThresholdOtsu(m) ==
    MinOf(m) + (2 * OtsuIndex(m) + 1) * ((MaxOf(m) - MinOf(m)) \div (2 * NBins))

\* SelectThreshold without the cap of lines 669-670
SelectThresholdNoCap(m) ==
    IF WideRange(m) THEN ThresholdOtsu(m) ELSE ThreeQuarters

\* lines 666-672, for a map threshold_otsu accepts
SelectThreshold(m) ==
    IF WideRange(m)
    THEN IF ThresholdOtsu(m) > ThreeQuarters THEN ThreeQuarters ELSE ThresholdOtsu(m)
    ELSE ThreeQuarters

\* ------------------------------------------------------------ confidence
\* 1 - x on floats
OneMinus(v) ==
    IF v = NaN THEN NaN
    ELSE IF v = Inf THEN NegInf
    ELSE IF v = NegInf THEN Inf
    ELSE Unit - v
\* x < t and x > t on floats: False for NaN
Below(v, t) == v # NaN /\ v # Inf /\ (v = NegInf \/ v < t)
Above(v, t) == v # NaN /\ v # NegInf /\ (v = Inf \/ v > t)

\* Confidence with the masked assignment of line 676 left out
ConfidenceNoFlip(m, t) ==
    LET c1 == [p \in DOMAIN m |-> OneMinus(m[p])]
        c3 == [p \in DOMAIN m |-> OneMinus(c1[p])]
    IN [p \in DOMAIN m |-> IF Finite(c3[p]) THEN c3[p] ELSE 0]

\* lines 675-680
Confidence(m, t) ==
    LET c1 == [p \in DOMAIN m |-> OneMinus(m[p])]
        c2 == [p \in DOMAIN m |-> IF Below(m[p], t) THEN m[p] ELSE c1[p]]
        c3 == [p \in DOMAIN m |-> OneMinus(c2[p])]
        c4 == [p \in DOMAIN m |-> IF c3[p] = NaN THEN 0 ELSE c3[p]]
    IN [p \in DOMAIN m |-> IF c4[p] = Inf \/ c4[p] = NegInf THEN 0 ELSE c4[p]]

\* ------------------------------------------------------------- the mask
\* lines 685-686: est_label[est_label<thres] = 0 ; est_label[est_label>thres] = 1
Binarize(m, t) ==
    LET b1 == [p \in DOMAIN m |-> IF Below(m[p], t) THEN 0 ELSE m[p]]
    IN [p \in DOMAIN m |-> IF Above(b1[p], t) THEN Unit ELSE b1[p]]

\* est_label.astype('uint8')*2 for a float array: the cast truncates; the
\* cast of NaN or Inf is undefined, the pixels of `lit` come out non-zero
AsUint8Times2(m, lit) ==
    [p \in DOMAIN m |->
        IF Finite(m[p]) THEN ((m[p] \div Unit) * 2) % 256
        ELSE IF p \in lit THEN 2 ELSE 0]

Row(p) == (p - 1) \div h
Col(p) == (p - 1) % h
\* connectivity=1: the four edge neighbours
Adjacent(p, q) ==
    \/ Row(p) = Row(q) /\ (Col(p) - Col(q) = 1 \/ Col(q) - Col(p) = 1)
    \/ Col(p) = Col(q) /\ (Row(p) - Row(q) = 1 \/ Row(q) - Row(p) = 1)

RECURSIVE Grow(_, _)
Grow(S, C) ==
    LET N == C \cup {q \in S : \E c \in C : Adjacent(c, q)}
    IN IF N = C THEN C ELSE Grow(S, N)

\* the connected component of p within the pixel set S (ndi.label)
ComponentOf(S, p) == Grow(S, {p})

\* remove_small_objects on a boolean array: S is the set of True pixels
RemoveSmallObjectsBool(S, min_size) ==
    {p \in S : Cardinality(ComponentOf(S, p)) >= min_size}

\* RemoveSmallHoles filling only the regions below half the area threshold
\* (the size floor taken as w instead of 2*w)
RemoveSmallHolesHalf(ar, area_threshold) ==
    LET fg == {p \in DOMAIN ar : ar[p] # 0}
        bg == (DOMAIN ar) \ fg
        kept == RemoveSmallObjectsBool(bg, area_threshold \div 2)
    IN [p \in DOMAIN ar |-> p \notin kept]

\* remove_small_holes(ar, area_threshold): ar.astype(bool), then
\* remove_small_objects on the inverse, inverted back; a boolean array
RemoveSmallHoles(ar, area_threshold) ==
    LET fg == {p \in DOMAIN ar : ar[p] # 0}
        bg == (DOMAIN ar) \ fg
        kept == RemoveSmallObjectsBool(bg, area_threshold)
    IN [p \in DOMAIN ar |-> p \notin kept]

\* remove_small_objects(ar, min_size) on an integer array: the array is
\* taken as a label image (ccs = out), component_sizes = np.bincount(ccs),
\* and every pixel whose label occurs fewer than min_size times is zeroed
RemoveSmallObjects(ar, min_size) ==
    [p \in DOMAIN ar |->
        IF Cardinality({q \in DOMAIN ar : ar[q] = ar[p]}) < min_size THEN 0 ELSE ar[p]]

\* lines 689-690 on the integer array
Rebinarized(ar, t) ==
    LET b1 == [p \in DOMAIN ar |-> IF ar[p] * Unit < t THEN 0 ELSE ar[p]]
    IN [p \in DOMAIN ar |-> IF b1[p] * Unit > t THEN 1 ELSE b1[p]]

\* ----------------------------------------------------------------- steps
\* the loop-level variables while one image is modelled
LoopIdle ==
    /\ NCLASSES = 1
    /\ N_DATA_BANDS = 3
    /\ direcHasJpg = FALSE
    /\ inputs = {}
    /\ dirs = OutDirs
    /\ fs = NoFiles
    /\ run = 1
    /\ pc = "image"
    /\ sample_filenames = <<>>
    /\ counter = 0
    /\ reached = {}
    /\ outcome = NoFiles
    /\ calls = NoCalls
    /\ cleared = NoCalls
    /\ error = "none"

ImageStart ==
    /\ est_label = <<>>
    /\ thres = 0
    /\ conf = <<>>
    /\ mask_in = <<>>
    /\ ipc = "combine"
    /\ TARGET_SIZE = 0
    /\ ki = 0

\* one image of w x h pixels and the prediction of the unshifted member
InitBin ==
    /\ DatasetIdle
    /\ LoopIdle
    /\ UnitIdle
    /\ w \in 1..MaxCells
    /\ h \in 1..MaxCells
    /\ w * h <= MaxCells
    /\ E \in {<<m>> : m \in [1..(w * h) -> OracleValues]}
    /\ W = <<1>>
    /\ ImageStart

\* lines 643-646
Combine ==
    /\ ipc = "combine"
    /\ est_label' = [p \in Pixels |-> Average(p)]
    /\ ipc' = "threshold"
    /\ UNCHANGED <<loopVars, datasetVars, unitVars, TARGET_SIZE, ki, w, h, E, W, thres, conf, mask_in>>

\* lines 666-673; np.histogram inside threshold_otsu raises ValueError on
\* a range that is not finite
Threshold ==
    /\ ipc = "threshold"
    /\ IF WideRange(est_label) /\ HasInf(est_label)
       THEN ipc' = "raised" /\ UNCHANGED thres
       ELSE thres' = SelectThreshold(est_label) /\ ipc' = "confidence"
    /\ UNCHANGED <<loopVars, datasetVars, unitVars, TARGET_SIZE, ki, w, h, E, W, est_label, conf, mask_in>>

\* lines 675-680
BuildConfidence ==
    /\ ipc = "confidence"
    /\ conf' = Confidence(est_label, thres)
    /\ ipc' = "binarize"
    /\ UNCHANGED <<loopVars, datasetVars, unitVars, TARGET_SIZE, ki, w, h, E, W, est_label, thres, mask_in>>

\* lines 685-686
BinarizeMap ==
    /\ ipc = "binarize"
    /\ est_label' = Binarize(est_label, thres)
    /\ ipc' = "holes"
    /\ UNCHANGED <<loopVars, datasetVars, unitVars, TARGET_SIZE, ki, w, h, E, W, thres, conf, mask_in>>

\* line 687
FillHoles ==
    /\ ipc = "holes"
    /\ \E lit \in SUBSET {p \in Pixels : ~Finite(est_label[p])} :
          /\ mask_in' = AsUint8Times2(est_label, lit)
          /\ est_label' = RemoveSmallHoles(AsUint8Times2(est_label, lit), 2 * w)
    /\ ipc' = "objects"
    /\ UNCHANGED <<loopVars, datasetVars, unitVars, TARGET_SIZE, ki, w, h, E, W, thres, conf>>

\* line 688: est_label is the boolean array, astype('uint8')*2 gives 0 / 2
RemoveObjects ==
    /\ ipc = "objects"
    /\ est_label' = RemoveSmallObjects([p \in Pixels |-> IF est_label[p] THEN 2 ELSE 0], 2 * w)
    /\ ipc' = "rebinarize"
    /\ UNCHANGED <<loopVars, datasetVars, unitVars, TARGET_SIZE, ki, w, h, E, W, thres, conf, mask_in>>

\* lines 689-691
Rebinarize ==
    /\ ipc = "rebinarize"
    /\ est_label' = Rebinarized(est_label, thres)
    /\ ipc' = "finished"
    /\ UNCHANGED <<loopVars, datasetVars, unitVars, TARGET_SIZE, ki, w, h, E, W, thres, conf, mask_in>>

NextBin ==
    \/ Combine
    \/ Threshold
    \/ BuildConfidence
    \/ BinarizeMap
    \/ FillHoles
    \/ RemoveObjects
    \/ Rebinarize

SpecBin == InitBin /\ [][NextBin]_vars


\* ensembles of 1..MaxMembers members over a 1 x 2 image, any weights; the
\* one-member ensemble with weight list [1] is among them
AvgValues == {0, 8, 32}

InitAvg ==
    /\ DatasetIdle
    /\ LoopIdle
    /\ UnitIdle
    /\ w = 1
    /\ h = 2
    /\ \E n \in 1..MaxMembers :
          /\ E \in [1..n -> [1..2 -> AvgValues]]
          /\ W \in [1..n -> 1..MaxWeight]
    /\ ImageStart

SpecAvg == InitAvg /\ [][NextBin]_vars

\* ======================================================================
\* Claims about the array work (checked under SpecBin and SpecAvg)
\* ======================================================================

\* the combined probability map, recomputed from the ensemble
Prob(p) == Average(p)

ThresholdChosen == ipc \in {"confidence", "binarize", "holes", "objects", "rebinarize", "finished"}
ConfidenceBuilt == ipc \in {"binarize", "holes", "objects", "rebinarize", "finished"}
HolesFilled == ipc \in {"objects", "rebinarize", "finished"}

\* C4: whenever the binary path has chosen a threshold for a combined map,
\* by the Otsu branch or by the default branch, the threshold is strictly
\* greater than 0 and at most 0.75.
C4_ThresholdInRange ==
    ThresholdChosen => (thres > 0 /\ 4 * thres <= 3 * Unit)

\* C4 witness: a map with values in [0,1] and range above 0.5 whose Otsu
\* value exceeds 0.75, so that the cap is what keeps the threshold in range.
C4_Witness ==
    /\ ThresholdChosen
    /\ \A p \in Pixels : Finite(Prob(p)) /\ Prob(p) <= Unit
    /\ 2 * (MaxOf([p \in Pixels |-> Prob(p)]) - MinOf([p \in Pixels |-> Prob(p)])) > Unit
    /\ 4 * ThresholdOtsu([p \in Pixels |-> Prob(p)]) > 3 * Unit
    /\ 4 * thres = 3 * Unit

\* sum over the members 1..i of W[i] * (E[i][p] - est_label[p]), the
\* members in units of 1/Scale and est_label in fine units, on the common
\* denominator Scale * Unit
RECURSIVE WeightedDeviation(_, _)
WeightedDeviation(p, i) ==
    IF i = 0 THEN 0
    ELSE W[i] * (E[i][p] * Unit - est_label[p] * Scale) + WeightedDeviation(p, i - 1)

\* C6: the combined map is the per-pixel weighted mean of the members with
\* their own weights: at every pixel the weighted deviations of the members
\* from the combined value sum to zero; and a single member with weight
\* list [1] is returned exactly.
C6_WeightedMean ==
    ipc = "threshold" =>
        \A p \in Pixels :
            /\ WeightedDeviation(p, Len(E)) = 0
            /\ (Len(E) = 1 /\ W = <<1>>) => est_label[p] * Scale = E[1][p] * Unit

\* C6 witness: two members with different weights that disagree at a pixel
\* have been combined.
C6_Witness ==
    /\ ipc = "threshold"
    /\ Len(E) = 2
    /\ W[1] # W[2]
    /\ \E p \in Pixels : E[1][p] # E[2][p] /\ est_label[p] > 0

\* C7 (as claimed): the confidence equals the combined probability at
\* every pixel, at or above the threshold and below it; NaN and Inf give 0.
C7_ConfidenceIsProbability ==
    ConfidenceBuilt =>
        \A p \in Pixels :
            IF Finite(Prob(p)) THEN conf[p] = Prob(p) ELSE conf[p] = 0

\* C7 (amended): the confidence equals the combined probability where the
\* probability is at or above the threshold and equals 1 - probability
\* where it is below the threshold; NaN and Inf give 0.
C7_ConfidenceFolded ==
    ConfidenceBuilt =>
        \A p \in Pixels :
            /\ (Finite(Prob(p)) /\ Prob(p) >= thres) => conf[p] = Prob(p)
            /\ (Finite(Prob(p)) /\ Prob(p) < thres) => conf[p] + Prob(p) = Unit
            /\ ~Finite(Prob(p)) => conf[p] = 0

\* C7 witness: a map with one pixel above the threshold and one below it
\* whose confidence is 1 - probability and differs from the probability,
\* and a NaN pixel whose confidence is 0.
C7_Witness ==
    /\ ConfidenceBuilt
    /\ \E p \in Pixels : Finite(Prob(p)) /\ Prob(p) > thres /\ conf[p] = Prob(p)
    /\ \E p \in Pixels : Finite(Prob(p)) /\ Prob(p) < thres /\ conf[p] # Prob(p)
    /\ \E p \in Pixels : Prob(p) = NaN /\ conf[p] = 0

\* C8 (as claimed): in the array handed to the morphological filters every
\* pixel with probability below the threshold is background (0) and every
\* pixel with probability at or above the threshold, the threshold itself
\* included, is foreground.
C8_BinarizeAtThreshold ==
    HolesFilled =>
        \A p \in Pixels :
            Finite(Prob(p)) =>
                /\ Prob(p) < thres => mask_in[p] = 0
                /\ Prob(p) >= thres => mask_in[p] # 0

\* the final mask's foreground and background pixels
Foreground == {p \in Pixels : est_label[p] = 1}
Background == {p \in Pixels : est_label[p] = 0}

\* C9 (as claimed): in the final mask every connected foreground region
\* has at least 2*w pixels.
C9_NoSmallObject ==
    ipc = "finished" =>
        \A p \in Foreground : Cardinality(ComponentOf(Foreground, p)) >= 2 * w

\* C10 (as claimed): in the final mask every connected background region
\* has at least 2*w pixels.
C10_NoSmallHole ==
    ipc = "finished" =>
        \A p \in Background : Cardinality(ComponentOf(Background, p)) >= 2 * w

\* C10 (amended): right after the hole-removal pass no connected background
\* region has fewer than 2*w pixels and no foreground pixel was lost; and
\* in the final mask of an image with at least two columns every connected
\* background region has at least 2*w pixels.
C10_NoSmallHoleTwoColumns ==
    /\ ipc = "objects" =>
          LET bg == {p \in Pixels : ~est_label[p]}
          IN /\ \A p \in bg : Cardinality(ComponentOf(bg, p)) >= 2 * w
             /\ \A p \in Pixels : mask_in[p] # 0 => est_label[p]
    /\ (ipc = "finished" /\ h >= 2) =>
          /\ \A p \in Pixels : est_label[p] \in {0, 1}
          /\ \A p \in Background : Cardinality(ComponentOf(Background, p)) >= 2 * w

\* C10 witness: an image with two or more columns and finite probabilities
\* whose binarized map had
\* a background pixel that is foreground in the final mask, next to
\* foreground that survived: a hole was filled.
C10_Witness ==
    /\ ipc = "finished"
    /\ h >= 2
    /\ \A p \in Pixels : Finite(Prob(p))
    /\ \E p \in Pixels : mask_in[p] = 0 /\ est_label[p] = 1
    /\ \E p \in Pixels : mask_in[p] # 0 /\ est_label[p] = 1


\* ======================================================================
\* SpecTTA: the ensemble construction of one image, lines 622-640
\* ======================================================================
\* In this specification a member of E is the record [roll |-> r]: the
\* oracle's prediction for np.roll(image, r).  A weight is kept as the
\* square of its value, the fraction [num / den]: 2*(1/np.sqrt(k)) is
\* positive, so two weights are equal exactly when their squares are.

\* TARGET_SIZE[0] ranges over Stride, 2*Stride, .. MaxTargetUnits*Stride
MaxTargetUnits == 64
\* res_unet halves the input four times (strides=2, lines 345-348) and
\* concatenates each upsampled map with its encoder map: the network of
\* lines 569-571 is built only for sizes that are multiples of 2^4
Stride == 16
\* the first argument of np.linspace (lines 630, 635)
FirstOffset == 100

TargetSizes == {Stride * n : n \in 1..MaxTargetUnits}

\* np.linspace(100, int(TARGET_SIZE[0]), 10)[i] for i in 0..9, times 9:
\* 100 + i * (TARGET_SIZE[0] - 100) / 9
Offset9(i) == (NShifts - 1) * FirstOffset + i * (TARGET_SIZE - FirstOffset)

\* int(k) for the positive float k = k9 / 9: truncation
IntOf(k9) == k9 \div (NShifts - 1)

\* ShiftWeight without the factor 2: 1/np.sqrt(k) squared
ShiftWeightUnscaled(k9) == [num |-> NShifts - 1, den |-> k9]

\* 2*(1/np.sqrt(k)) squared: 4 / k
ShiftWeight(k9) == [num |-> 4 * (NShifts - 1), den |-> k9]

\* the weight appended at line 624: the literal 1
UnitWeight == [num |-> 1, den |-> 1]

InitTTA ==
    /\ DatasetIdle
    /\ LoopIdle
    /\ UnitIdle
    /\ w = 0
    /\ h = 0
    /\ E = <<>>
    /\ W = <<>>
    /\ est_label = <<>>
    /\ thres = 0
    /\ conf = <<>>
    /\ mask_in = <<>>
    /\ TARGET_SIZE \in TargetSizes
    /\ ki = 0
    /\ ipc = "first"

ttaFixed == <<loopVars, datasetVars, unitVars, TARGET_SIZE, w, h, est_label, thres, conf, mask_in>>

\* lines 622-624
TtaFirst ==
    /\ ipc = "first"
    /\ E' = <<[roll |-> 0]>>
    /\ W' = <<UnitWeight>>
    /\ ki' = 0
    /\ ipc' = "forward"
    /\ UNCHANGED ttaFixed

\* TtaBackward rolling the image by +int(k), as the first loop does
TtaBackwardSameWay ==
    /\ ipc = "backward"
    /\ ki < NShifts
    /\ E' = Append(E, [roll |-> IntOf(Offset9(ki))])
    /\ W' = Append(W, ShiftWeight(Offset9(ki)))
    /\ ki' = ki + 1
    /\ UNCHANGED ipc
    /\ UNCHANGED ttaFixed

\* lines 630-633: one iteration of the first k loop
TtaForward ==
    /\ ipc = "forward"
    /\ ki < NShifts
    /\ E' = Append(E, [roll |-> IntOf(Offset9(ki))])
    /\ W' = Append(W, ShiftWeight(Offset9(ki)))
    /\ ki' = ki + 1
    /\ UNCHANGED ipc
    /\ UNCHANGED ttaFixed

\* the first loop is exhausted, the second begins (line 635)
TtaTurn ==
    /\ ipc = "forward"
    /\ ki = NShifts
    /\ ki' = 0
    /\ ipc' = "backward"
    /\ UNCHANGED <<E, W>>
    /\ UNCHANGED ttaFixed

\* lines 635-638: one iteration of the second k loop
TtaBackward ==
    /\ ipc = "backward"
    /\ ki < NShifts
    /\ E' = Append(E, [roll |-> 0 - IntOf(Offset9(ki))])
    /\ W' = Append(W, ShiftWeight(Offset9(ki)))
    /\ ki' = ki + 1
    /\ UNCHANGED ipc
    /\ UNCHANGED ttaFixed

\* line 640, after the second loop is exhausted
TtaClear ==
    /\ ipc = "backward"
    /\ ki = NShifts
    /\ ipc' = "built"
    /\ UNCHANGED <<E, W, ki>>
    /\ UNCHANGED ttaFixed

NextTTA ==
    \/ TtaFirst
    \/ TtaForward
    \/ TtaTurn
    \/ TtaBackward
    \/ TtaClear

SpecTTA == InitTTA /\ [][NextTTA]_vars

\* ----------------------------------------------------- claims on SpecTTA
\* the lists are complete
Built == ipc = "built"

\* what holds of the lists at every point of the construction and of the
\* complete ensemble, whatever the roll amounts are
EnsembleShape ==
    /\ ipc # "first" => (Len(E) = Len(W) /\ E[1].roll = 0 /\ W[1] = UnitWeight)
    /\ ipc = "forward" => Len(E) = 1 + ki
    /\ ipc = "backward" => Len(E) = 1 + NShifts + ki
    /\ Built =>
          /\ Len(E) = 1 + 2 * NShifts
          /\ \A i \in 1..NShifts : W[i + 1 + NShifts] = W[i + 1]
          /\ \A i \in 1..NShifts : W[i + 1] = ShiftWeight(Offset9(i - 1))
          /\ Offset9(0) = (NShifts - 1) * FirstOffset
          /\ Offset9(NShifts - 1) = (NShifts - 1) * TARGET_SIZE
          /\ \A i \in 1..(NShifts - 1) :
                Offset9(i) - Offset9(i - 1) = TARGET_SIZE - FirstOffset

\* C5 (as claimed): the ensemble has exactly 21 members, member 0 unshifted
\* with weight 1, members 1-10 shifted by the 10 evenly spaced offsets from
\* 100 to TARGET_SIZE[0], members 11-20 by the same offsets in the opposite
\* direction, member i+10 weighted as member i, and the two lists of equal
\* length throughout.
C5_ShiftsAreOffsets ==
    /\ EnsembleShape
    /\ Built =>
          \A i \in 1..NShifts :
             /\ (NShifts - 1) * E[i + 1].roll = Offset9(i - 1)
             /\ (NShifts - 1) * E[i + 1 + NShifts].roll = 0 - Offset9(i - 1)

\* C5 (amended): as claimed, except that member i is shifted by the integer
\* part int(k) of the i-th evenly spaced offset k and member i+10 by
\* -int(k); the weights are computed from the offsets k themselves.
C5_ShiftsAreTruncatedOffsets ==
    /\ EnsembleShape
    /\ Built =>
          \A i \in 1..NShifts :
             /\ E[i + 1].roll = IntOf(Offset9(i - 1))
             /\ E[i + 1 + NShifts].roll = 0 - E[i + 1].roll
             /\ (NShifts - 1) * E[i + 1].roll <= Offset9(i - 1)
             /\ (NShifts - 1) * (E[i + 1].roll + 1) > Offset9(i - 1)

\* C5 witness: a complete ensemble for a TARGET_SIZE above 100 whose
\* offsets are not whole numbers, so that some member is shifted by less
\* than its offset.
C5_Witness ==
    /\ Built
    /\ TARGET_SIZE > FirstOffset
    /\ Len(E) = 1 + 2 * NShifts
    /\ \E i \in 1..NShifts : (NShifts - 1) * E[i + 1].roll < Offset9(i - 1)


\* ======================================================================
\* The format test of the loaders and of the output names
\* ======================================================================
\* lines 394-397 and 443-446: decode_jpeg if 'jpg' in f, decode_png elif
\* 'png' in f.  Every listed path ends in .jpg or .png, so one of the two
\* substrings is always there; a directory name holding 'png' changes
\* nothing, because a .jpg file takes the first branch by its own name.
Decoder(f) == IF HasJpg(f) THEN "decode_jpeg" ELSE "decode_png"

\* the name the spec gives to the mask of input f
PredsegName(f) == [dir |-> "masks", stem |-> f.stem, tail |-> "_predseg.png"]

\* C11 (as claimed): for every listed file that was processed, the decoder
\* called is the one of the file's extension (decode_png for .png,
\* decode_jpeg for .jpg) and the mask was written as <name>_predseg.png,
\* also when the directory's path contains 'jpg'.
C11_ByExtensionOnly ==
    \A f \in DOMAIN outcome :
        outcome[f] = "processed" =>
            /\ Decoder(f) = (IF f.ext = "png" THEN "decode_png" ELSE "decode_jpeg")
            /\ Exists(PredsegName(f))


\* ======================================================================
\* SpecStd: one call of standardize, lines 192-204 (rescale: 180-188)
\* ======================================================================
\* An array is the record [shape, px]: shape is the tuple np.shape gives,
\* <<H, W>> or <<H, W, C>>, and px lists the elements in C order.

\* H and W range over 1..MaxSide, an array has at most MaxElems elements
\* with values 0..MaxValue
MaxSide == 2
MaxElems == 4
MaxValue == 2

RECURSIVE Prod(_)
Prod(q) == IF q = <<>> THEN 1 ELSE Head(q) * Prod(Tail(q))

\* the shapes standardize is called with: 2-D, and 3-D with the 1, 3 or 4
\* bands the decoders and the 4-band loader produce
Shapes ==
    {sh \in [1..2 -> 1..MaxSide] \cup [1..3 -> 1..4] :
        /\ sh[1] <= MaxSide /\ sh[2] <= MaxSide
        /\ Len(sh) = 3 => sh[3] \in {1, 3, 4}
        /\ Prod(sh) <= MaxElems}

Arrays == UNION {[shape : {sh}, px : [1..Prod(sh) -> 0..MaxValue]] : sh \in Shapes}

\* np.ndim
Ndim(a) == Len(a.shape)

MinPx(a) == CHOOSE v \in {a.px[i] : i \in DOMAIN a.px} : \A j \in DOMAIN a.px : v <= a.px[j]
MaxPx(a) == CHOOSE v \in {a.px[i] : i \in DOMAIN a.px} : \A j \in DOMAIN a.px : a.px[j] <= v

\* lines 194-197: (img - m) / s with m = np.mean(img) over all elements and
\* s = np.maximum(np.std(img), 1.0/np.sqrt(N)), which is positive whatever
\* the array.  The result is kept as the integer n*img - sum(img), that is
\* up to the positive factor 1/(n*s) every element shares (n elements).
Centred(a) ==
    [shape |-> a.shape,
     px |-> [i \in DOMAIN a.px |-> Len(a.px) * a.px[i] - SumSeq(a.px)]]

\* rescale(dat, 0, 1), lines 186-188: (mx-mn)*(dat-m)/(M-m)+mn.  An element
\* is the fraction [num / den]; den = 0 is the division by zero of numpy
\* floats, whose quotient 0/0 is NaN (a RuntimeWarning, no exception).
Rescale(dat) ==
    [shape |-> dat.shape,
     px |-> [i \in DOMAIN dat.px |->
                [num |-> dat.px[i] - MinPx(dat), den |-> MaxPx(dat) - MinPx(dat)]]]

\* np.dstack((img,img,img)) of a 2-D array: shape (H, W, 3), each element
\* three times
Dstack3(a) ==
    [shape |-> a.shape \o <<3>>,
     px |-> [i \in 1..(3 * Len(a.px)) |-> a.px[((i - 1) \div 3) + 1]]]

InitStd ==
    /\ DatasetIdle
    /\ LoopIdle
    /\ ImageIdle
    /\ LoadIdle
    /\ MultiIdle
    /\ image \in Arrays
    /\ img = <<>>
    /\ spc = "called"

\* line 192: the call binds img to the argument
StdCall ==
    /\ spc = "called"
    /\ img' = image
    /\ spc' = "normalize"
    /\ UNCHANGED <<loopVars, datasetVars, imageVars, loadVars, multiVars, image>>

\* lines 194-197
StdNormalize ==
    /\ spc = "normalize"
    /\ img' = Centred(img)
    /\ spc' = "rescale"
    /\ UNCHANGED <<loopVars, datasetVars, imageVars, loadVars, multiVars, image>>

\* line 198
StdRescale ==
    /\ spc = "rescale"
    /\ img' = Rescale(img)
    /\ spc' = "stack"
    /\ UNCHANGED <<loopVars, datasetVars, imageVars, loadVars, multiVars, image>>

\* lines 201-204
StdStack ==
    /\ spc = "stack"
    /\ img' = IF Ndim(img) # 3 THEN Dstack3(img) ELSE img
    /\ spc' = "returned"
    /\ UNCHANGED <<loopVars, datasetVars, imageVars, loadVars, multiVars, image>>

NextStd ==
    \/ StdCall
    \/ StdNormalize
    \/ StdRescale
    \/ StdStack

SpecStd == InitStd /\ [][NextStd]_vars

\* ----------------------------------------------------- claims on SpecStd
\* C12 (as claimed): for every input, a constant one included, the array
\* standardize returns has minimum 0 and maximum 1, and the rescale step
\* divides by a number that is not zero.
C12_UnitRange ==
    spc = "returned" =>
        /\ \A i \in DOMAIN img.px : img.px[i].den # 0
        /\ \E i \in DOMAIN img.px : img.px[i].num = 0
        /\ \E i \in DOMAIN img.px : img.px[i].num = img.px[i].den
        /\ \A i \in DOMAIN img.px : 0 <= img.px[i].num /\ img.px[i].num <= img.px[i].den

\* an H x W array or an H x W x 1 array
SingleChannel(a) == Ndim(a) = 2 \/ (Ndim(a) = 3 /\ a.shape[3] = 1)

\* C13 (as claimed): standardize returns an H x W x 3 array for a
\* single-channel input, 2-D or H x W x 1, and an array of the input's
\* shape for every other input.
C13_ThreeChannels ==
    spc = "returned" =>
        IF SingleChannel(image)
        THEN img.shape = <<image.shape[1], image.shape[2], 3>>
        ELSE img.shape = image.shape


\* ======================================================================
\* SpecLoad, SpecResize: one call of seg_file2tensor_3band (lines 381-425)
\* or seg_file2tensor_4band (lines 429-484), as lines 606-615 choose
\* ======================================================================
\* Here a path is the record [dir, ext]: the directory it lies in and its
\* extension.  A decoded image is the record [decoder, bands]: the decode
\* function called and, for each band, the path the band was read from.

\* SpecLoad: the stored image has SmallSide rows and columns at most
SmallSide == 2
\* SpecResize: the stored image has up to MaxSource rows and columns, the
\* target sides are Stride, .. MaxTargetSides*Stride
MaxSource == 40
MaxTargetSides == 3

LoadDirs == {"aug_images", "samples"}
LoadExts == {"jpg", "png", "tif"}
LoadPaths == [dir : LoadDirs \cup {"aug_nir"}, ext : LoadExts]

\* 'png' in f
HasPng(g) == g.ext = "png"

\* fir = f.replace('aug_images', 'aug_nir') (lines 612, 756): the path
\* itself when it does not contain 'aug_images'
Fir(g) == [dir |-> IF g.dir = "aug_images" THEN "aug_nir" ELSE g.dir, ext |-> g.ext]

Unbound == [decoder |-> "unbound", bands |-> <<>>]

\* lines 394-397, 443-446: the three bands of a colour image read from g;
\* with neither substring in the name nothing is assigned
Decoded(g) ==
    IF HasJpg(g) THEN [decoder |-> "decode_jpeg", bands |-> <<g, g, g>>]
    ELSE IF HasPng(g) THEN [decoder |-> "decode_png", bands |-> <<g, g, g>>]
    ELSE Unbound

\* lines 449-452: the second test is on f, not on fir
DecodedNir(g, gir) ==
    IF HasJpg(gir) THEN [decoder |-> "decode_jpeg", bands |-> <<gir, gir, gir>>]
    ELSE IF HasPng(g) THEN [decoder |-> "decode_png", bands |-> <<gir, gir, gir>>]
    ELSE Unbound

\* tf.concat([bigimage, nir],-1)[:,:,:N_DATA_BANDS] (line 464)
ConcatBands(big, nir) ==
    [decoder |-> big.decoder,
     bands |-> SubSeq(big.bands \o nir.bands, 1, N_DATA_BANDS)]

\* ResizeCrit with the comparison turned round
ResizeCritInverted == w * th > h * tw

\* resize_crit < 1 with resize_crit = (w * th) / (h * tw), line 413
ResizeCrit == w * th < h * tw

\* the int32 cast tf.image.resize applies to a size a / b given as a float
ToInt32(a, b) == a \div b

\* the size of lines 414-417: [w*tw/w, h*tw/w] or [w*th/h, h*th/h]
NewSize ==
    IF ResizeCrit
    THEN <<ToInt32(w * tw, w), ToInt32(h * tw, w)>>
    ELSE <<ToInt32(w * th, h), ToInt32(h * th, h)>>

\* the variables of the other specifications that the loader leaves alone
ArraysIdle ==
    /\ E = <<>>
    /\ W = <<>>
    /\ est_label = <<>>
    /\ thres = 0
    /\ conf = <<>>
    /\ mask_in = <<>>
    /\ ipc = "idle"
    /\ TARGET_SIZE = 0
    /\ ki = 0

LoaderIdleLoop ==
    /\ NCLASSES = 1
    /\ inputs = {}
    /\ dirs = OutDirs
    /\ fs = NoFiles
    /\ run = 1
    /\ pc = "load"
    /\ sample_filenames = <<>>
    /\ counter = 0
    /\ reached = {}
    /\ outcome = NoFiles
    /\ calls = NoCalls
    /\ cleared = NoCalls
    /\ error = "none"

LoadStart ==
    /\ DatasetIdle
    /\ LoaderIdleLoop
    /\ ArraysIdle
    /\ StdIdle
    /\ MultiIdle
    /\ bigimage = Unbound
    /\ nw = 0
    /\ nh = 0
    /\ crop = <<>>
    /\ load_error = "none"
    /\ lpc = "decode"

\* every kind of name, with the companion there or not
InitLoad ==
    /\ N_DATA_BANDS \in BandChoices
    /\ direcHasJpg \in BOOLEAN
    /\ file \in [dir : LoadDirs, ext : LoadExts]
    /\ disk \in {d \in SUBSET {file, Fir(file)} : file \in d}
    /\ w \in 1..SmallSide
    /\ h \in 1..SmallSide
    /\ tw = Stride
    /\ th = Stride
    /\ LoadStart

\* every source size and target size, for a .jpg with its companion
InitResize ==
    /\ N_DATA_BANDS \in BandChoices
    /\ direcHasJpg = FALSE
    /\ file = [dir |-> "aug_images", ext |-> "jpg"]
    /\ disk = {file, Fir(file)}
    /\ w \in 1..MaxSource
    /\ h \in 1..MaxSource
    /\ tw \in {Stride * n : n \in 1..MaxTargetSides}
    /\ th \in {Stride * n : n \in 1..MaxTargetSides}
    /\ LoadStart

loadFixed == <<loopVars, datasetVars, stdVars, multiVars, file, disk, tw, th, w, h, E, W, est_label,
               thres, conf, mask_in, ipc, TARGET_SIZE, ki>>

\* the loader raises: the exception leaves the function
LoadRaise(what) ==
    /\ load_error' = what
    /\ lpc' = "raised"

\* lines 393-397, 441-446
LoadDecode ==
    /\ lpc = "decode"
    /\ IF file \in disk
       THEN /\ bigimage' = Decoded(file)
            /\ lpc' = IF N_DATA_BANDS <= 3 THEN "shape" ELSE "nir"
            /\ UNCHANGED load_error
       ELSE /\ LoadRaise("NotFoundError")
            /\ UNCHANGED bigimage
    /\ UNCHANGED <<loadFixed, nw, nh, crop>>

\* lines 448-464 (USE_LOCATION false)
LoadNir ==
    /\ lpc = "nir"
    /\ IF Fir(file) \notin disk
       THEN LoadRaise("NotFoundError") /\ UNCHANGED bigimage
       ELSE IF bigimage = Unbound \/ DecodedNir(file, Fir(file)) = Unbound
       THEN LoadRaise("UnboundLocalError") /\ UNCHANGED bigimage
       ELSE /\ bigimage' = ConcatBands(bigimage, DecodedNir(file, Fir(file)))
            /\ lpc' = "shape"
            /\ UNCHANGED load_error
    /\ UNCHANGED <<loadFixed, nw, nh, crop>>

\* lines 406-407, 466-467: w and h are the size of the stored image
LoadShape ==
    /\ lpc = "shape"
    /\ IF bigimage = Unbound
       THEN LoadRaise("UnboundLocalError")
       ELSE lpc' = "resize" /\ UNCHANGED load_error
    /\ UNCHANGED <<loadFixed, bigimage, nw, nh, crop>>

\* lines 409-420, 469-480
LoadResize ==
    /\ lpc = "resize"
    /\ nw' = NewSize[1]
    /\ nh' = NewSize[2]
    /\ lpc' = "crop"
    /\ UNCHANGED <<loadFixed, bigimage, crop, load_error>>

\* lines 421-425, 481-484: crop_to_bounding_box raises on a negative
\* offset and on a box that does not fit
LoadCrop ==
    /\ lpc = "crop"
    /\ crop' = <<(nw - tw) \div 2, (nh - th) \div 2>>
    /\ IF /\ (nw - tw) \div 2 >= 0
          /\ (nh - th) \div 2 >= 0
          /\ nw >= tw + (nw - tw) \div 2
          /\ nh >= th + (nh - th) \div 2
       THEN lpc' = "loaded" /\ UNCHANGED load_error
       ELSE LoadRaise("ValueError")
    /\ UNCHANGED <<loopVars, datasetVars, multiVars, img, spc, file, disk, tw, th, w, h, E, W, est_label,
                   thres, conf, mask_in, ipc, TARGET_SIZE, ki, bigimage, nw, nh>>
    /\ image' = IF lpc' = "loaded"
                THEN [shape |-> <<tw, th, Len(bigimage.bands)>>]
                ELSE image

NextLoad ==
    \/ LoadDecode
    \/ LoadNir
    \/ LoadShape
    \/ LoadResize
    \/ LoadCrop

SpecLoad == InitLoad /\ [][NextLoad]_vars

SpecResize == InitResize /\ [][NextLoad]_vars


\* ---------------------------------------- claims on SpecLoad, SpecResize
LoadEnded == lpc \in {"loaded", "raised"}

\* the near-infrared companion of path g: the file of the same name below
\* aug_nir
Companion(g) == [dir |-> "aug_nir", ext |-> g.ext]

\* C14 (as claimed): a name with neither supported format makes the loader
\* fail; on the 4-band path a missing companion makes it fail, the path it
\* reads the companion from is never the image's own path, and so no band
\* beyond the third is read from the image itself.
C14_LoaderErrors ==
    LoadEnded =>
        /\ (~HasJpg(file) /\ ~HasPng(file)) => load_error # "none"
        /\ N_DATA_BANDS > 3 =>
              /\ Fir(file) # file
              /\ Companion(file) \notin disk => load_error # "none"
              /\ lpc = "loaded" =>
                    \A b \in 4..Len(bigimage.bands) : bigimage.bands[b] # file

\* C20: whenever the loader has resized and cropped, for every source size
\* w x h and target tw x th: the crop never raises; one side of the resized
\* image equals its target and the other is the source side scaled by the
\* same factor, rounded down, and at least its target; both crop offsets
\* are non-negative; the returned tensor is tw x th; and with
\* w * th = h * tw both offsets are zero.
C20_ResizeCrop ==
    /\ load_error # "ValueError"
    /\ lpc = "loaded" =>
          /\ \/ nw = tw /\ nh >= th /\ w * nh <= h * tw /\ h * tw < w * (nh + 1)
             \/ nh = th /\ nw >= tw /\ h * nw <= w * th /\ w * th < h * (nw + 1)
          /\ crop[1] >= 0 /\ crop[2] >= 0
          /\ 2 * crop[1] <= nw - tw /\ 2 * crop[2] <= nh - th
          /\ image.shape[1] = tw /\ image.shape[2] = th
          /\ w * th = h * tw => crop = <<0, 0>>

\* C20 witness: a source whose aspect ratio differs from the target's was
\* scaled by a factor that does not give a whole number of columns, and
\* cropped with a positive column offset.
C20_Witness ==
    /\ lpc = "loaded"
    /\ w * th # h * tw
    /\ (h * tw) % w # 0
    /\ nw = tw
    /\ crop[2] > 0


\* ======================================================================
\* SpecMulti: the array work of the multiclass path, lines 766-778
\* ======================================================================
\* A class map is the record [shape, px] with shape = <<rows, columns>>;
\* px lists the pixels row by row.  In a stack of class maps (np.dstack)
\* each pixel is the tuple of its NCLASSES values.  The oracle's outputs
\* are finite; its values are in quarters.  After the resize a value is
\* kept as an integer multiple of 1/(4 * w * h) of the oracle's unit.

\* the oracle's output grid has at most MaxGrid pixels
MaxGrid == 3

MultiClassChoices == {2, 3}

\* the softmax vectors drawn for a pixel, in quarters
ClassVectors(n) ==
    IF n = 2 THEN {<<3, 1>>, <<1, 3>>, <<2, 2>>}
    ELSE {<<2, 1, 1>>, <<1, 2, 1>>, <<1, 1, 2>>, <<2, 2, 0>>, <<0, 1, 3>>}

GridShapes == {sh \in [1..2 -> 1..MaxGrid] : sh[1] * sh[2] <= MaxGrid}

\* mode='reflect' of scipy.ndimage (d c b a | a b c d | d c b a), on
\* 0-based index j of an axis of length n
Reflect(j, n) == LET m == j % (2 * n) IN IF m < n THEN m ELSE 2 * n - 1 - m

\* element (i, j), 0-based, of map a, the borders reflected
At(a, i, j) ==
    a.px[Reflect(i, a.shape[1]) * a.shape[2] + Reflect(j, a.shape[2]) + 1]

\* est_label[:,:,k] for the 1-based class k
Band(stack, k) == [shape |-> stack.shape, px |-> [p \in DOMAIN stack.px |-> stack.px[p][k]]]

\* np.dstack of the list q of maps
Dstack(q) ==
    [shape |-> q[1].shape,
     px |-> [p \in DOMAIN q[1].px |-> [k \in DOMAIN q |-> q[k].px[p]]]]

MaxOfSet(S) == CHOOSE v \in S : \A u \in S : u <= v

\* int(w/2/NCLASSES), line 769
FilterSize == w \div (2 * NCLASSES)

\* scipy.ndimage.maximum_filter(a, size): the largest value in the size x
\* size window whose centre is at index size // 2; an axis of size <= 1 is
\* not filtered
Window(size) == IF size <= 1 THEN {0} ELSE (0 - size \div 2)..(size - 1 - size \div 2)

MaximumFilter(a, size) ==
    [shape |-> a.shape,
     px |-> [p \in DOMAIN a.px |->
                MaxOfSet({At(a, ((p - 1) \div a.shape[2]) + di, ((p - 1) % a.shape[2]) + dj) :
                              di \in Window(size), dj \in Window(size)})]]

\* skimage.transform.resize to a shape that is not smaller (no
\* anti-aliasing): scipy.ndimage.zoom with order=1, mode='reflect',
\* grid_mode=True.  Output index i of an axis of n_out points lies at the
\* input coordinate ((2i+1) * n_in - n_out) / (2 * n_out).
Coord(i, n_in, n_out) == (2 * i + 1) * n_in - n_out
Lo(i, n_in, n_out) == Coord(i, n_in, n_out) \div (2 * n_out)
Frac(i, n_in, n_out) == Coord(i, n_in, n_out) - Lo(i, n_in, n_out) * (2 * n_out)

\* the value at output pixel (i, j), times 4 * rows * cols
Interpolated(a, i, j, rows, cols) ==
    LET li == Lo(i, a.shape[1], rows)
        fi == Frac(i, a.shape[1], rows)
        lj == Lo(j, a.shape[2], cols)
        fj == Frac(j, a.shape[2], cols)
    IN   (2 * rows - fi) * (2 * cols - fj) * At(a, li, lj)
       + (2 * rows - fi) * fj * At(a, li, lj + 1)
       + fi * (2 * cols - fj) * At(a, li + 1, lj)
       + fi * fj * At(a, li + 1, lj + 1)

\* resize(est_label, (w, h)) of a stack: every band by the same weights
Resize(stack, rows, cols) ==
    [shape |-> <<rows, cols>>,
     px |-> [p \in 1..(rows * cols) |->
                [k \in DOMAIN stack.px[1] |->
                    Interpolated(Band(stack, k), (p - 1) \div cols, (p - 1) % cols, rows, cols)]]]

\* Argmax taking the smallest value instead of the largest
Argmin(v) ==
    (CHOOSE k \in DOMAIN v : /\ \A j \in DOMAIN v : v[k] <= v[j]
                             /\ \A j \in 1..(k - 1) : v[j] > v[k]) - 1

\* np.argmax over the last axis: the first index of the largest value
Argmax(v) ==
    (CHOOSE k \in DOMAIN v : /\ \A j \in DOMAIN v : v[j] <= v[k]
                             /\ \A j \in 1..(k - 1) : v[j] < v[k]) - 1

\* np.max over the last axis
MaxOver(v) == MaxOfSet({v[k] : k \in DOMAIN v})

\* the loop-level variables while the loop body is at step `at` of a file
LoopParked(at) ==
    /\ N_DATA_BANDS = 3
    /\ direcHasJpg = FALSE
    /\ inputs = {}
    /\ dirs = OutDirs
    /\ fs = NoFiles
    /\ run = 1
    /\ pc = at
    /\ sample_filenames = <<>>
    /\ counter = 0
    /\ reached = {}
    /\ outcome = NoFiles
    /\ calls = NoCalls
    /\ cleared = NoCalls
    /\ error = "none"

\* the oracle's grid, and a native size that is the grid's own or larger:
\* 4 * NCLASSES rows make the filter size 2
InitMulti ==
    /\ DatasetIdle
    /\ NCLASSES \in MultiClassChoices
    /\ LoopParked("predict")
    /\ StdIdle
    /\ LoadIdle
    /\ \E sh \in GridShapes :
          /\ prediction \in [shape : {sh}, px : [1..(sh[1] * sh[2]) -> ClassVectors(NCLASSES)]]
          /\ w \in {sh[1], 4 * NCLASSES}
          /\ h \in {sh[2], 2 * sh[2]}
    /\ mask = <<>>
    /\ color_label = <<>>
    /\ E = <<>>
    /\ W = <<>>
    /\ est_label = <<>>
    /\ thres = 0
    /\ conf = <<>>
    /\ mask_in = <<>>
    /\ TARGET_SIZE = 0
    /\ ki = 0
    /\ ipc = "predict"

multiFixed == <<loopVars, datasetVars, stdVars, loadVars, multiVars, w, h, W, thres, mask_in,
                TARGET_SIZE, ki>>

\* lines 766-767
MultiPredict ==
    /\ ipc = "predict"
    /\ est_label' = prediction
    /\ ipc' = "filter"
    /\ UNCHANGED <<multiFixed, E, conf>>

\* lines 769-770
MultiFilter ==
    /\ ipc = "filter"
    /\ E' = [k \in 1..NCLASSES |-> MaximumFilter(Band(est_label, k), FilterSize)]
    /\ est_label' = Dstack(E')
    /\ ipc' = "resize"
    /\ UNCHANGED <<multiFixed, conf>>

\* line 772
MultiResize ==
    /\ ipc = "resize"
    /\ est_label' = Resize(est_label, w, h)
    /\ ipc' = "conf"
    /\ UNCHANGED <<multiFixed, E, conf>>

\* lines 773-775 (the values are finite: nothing is replaced)
MultiConf ==
    /\ ipc = "conf"
    /\ conf' = [p \in DOMAIN est_label.px |-> MaxOver(est_label.px[p])]
    /\ ipc' = "argmax"
    /\ UNCHANGED <<multiFixed, E, est_label>>

\* lines 776-778
MultiArgmax ==
    /\ ipc = "argmax"
    /\ est_label' = [p \in DOMAIN est_label.px |-> Argmax(est_label.px[p])]
    /\ ipc' = "labelled"
    /\ UNCHANGED <<multiFixed, E, conf>>

NextMulti ==
    \/ MultiPredict
    \/ MultiFilter
    \/ MultiResize
    \/ MultiConf
    \/ MultiArgmax

SpecMulti == InitMulti /\ [][NextMulti]_vars

\* ---------------------------------------------------- claims on SpecMulti
\* the max-filtered and resized class maps, from the oracle's output
FilteredResized ==
    Resize(Dstack([k \in 1..NCLASSES |-> MaximumFilter(Band(prediction, k), FilterSize)]), w, h)

\* class c (0-based) has a strictly larger oracle probability than every
\* other class at every pixel
Dominates(c) ==
    \A p \in DOMAIN prediction.px : \A k \in 1..NCLASSES :
        k # c + 1 => prediction.px[p][c + 1] > prediction.px[p][k]

\* C15: in the multiclass path, once the label map is computed: it has a
\* label in 0..NCLASSES-1 for each of the w x h pixels; at every pixel no
\* class has a larger max-filtered, resized value than the label's class,
\* and that value is the confidence; and when one class dominates the
\* oracle's output at every pixel every label is that class.
C15_ArgmaxLabels ==
    ipc = "labelled" =>
        /\ DOMAIN est_label = 1..(w * h)
        /\ \A p \in DOMAIN est_label :
              /\ est_label[p] \in 0..(NCLASSES - 1)
              /\ \A k \in 1..NCLASSES :
                    FilteredResized.px[p][k] <= FilteredResized.px[p][est_label[p] + 1]
              /\ conf[p] = FilteredResized.px[p][est_label[p] + 1]
        /\ \A c \in 0..(NCLASSES - 1) :
              Dominates(c) => \A p \in DOMAIN est_label : est_label[p] = c

\* C15 witness: the third class dominates an oracle output that differs
\* between pixels, the filter window is 2 x 2, the map was enlarged, and
\* the label map is uniformly 2.
C15_Witness ==
    /\ ipc = "labelled"
    /\ NCLASSES = 3
    /\ Dominates(2)
    /\ \E p, q \in DOMAIN prediction.px : prediction.px[p] # prediction.px[q]
    /\ FilterSize = 2
    /\ w > prediction.shape[1]
    /\ \A p \in DOMAIN est_label : est_label[p] = 2


\* ======================================================================
\* SpecColour: label_to_colors as called at lines 780-785
\* ======================================================================
\* A colour string '#RRGGBB' is the tuple of its six hexadecimal digits; a
\* colour is the tuple <<R, G, B>>.  The label map is a row of pixels.

\* NCLASSES ranges over 2..MaxClasses, the label map has up to
\* MaxColourCells pixels
MaxClasses == 11
MaxColourCells == 2

\* the list of line 780
Palette ==
    << <<3, 3, 6, 6, 12, 12>>, <<13, 12, 3, 9, 1, 2>>, <<15, 15, 9, 9, 0, 0>>,
       <<1, 0, 9, 6, 1, 8>>, <<9, 9, 0, 0, 9, 9>>, <<0, 0, 9, 9, 12, 6>>,
       <<13, 13, 4, 4, 7, 7>>, <<6, 6, 10, 10, 0, 0>>, <<11, 8, 2, 14, 2, 14>>,
       <<3, 1, 6, 3, 9, 5>> >>

\* [...][:NCLASSES], lines 780-781
ClassLabelColormap ==
    SubSeq(Palette, 1, IF NCLASSES < Len(Palette) THEN NCLASSES ELSE Len(Palette))

\* fromhex of two digits, lines 487-489
FromHex(hi, lo) == 16 * hi + lo

\* lines 512-515: the colormap as tuples of integers
ParsedColormap(colormap) ==
    [i \in DOMAIN colormap |->
        <<FromHex(colormap[i][1], colormap[i][2]),
          FromHex(colormap[i][3], colormap[i][4]),
          FromHex(colormap[i][5], colormap[i][6])>>]

\* lines 517-522 with color_class_offset = 0: every label between the
\* smallest and the largest present gets colormap[c % len(colormap)]
Painted(labels, colormap) ==
    [p \in DOMAIN labels |->
        ParsedColormap(colormap)[(labels[p] % Len(colormap)) + 1]]

\* Blacken leaving every pixel as painted
BlackenNothing(cimg, msk) == cimg

\* line 524: cimg[mask==1] = (0,0,0)
Blacken(cimg, msk) ==
    [p \in DOMAIN cimg |-> IF msk[p] THEN <<0, 0, 0>> ELSE cimg[p]]

InitColour ==
    /\ DatasetIdle
    /\ NCLASSES \in 2..MaxClasses
    /\ LoopParked("postprocess")
    /\ StdIdle
    /\ LoadIdle
    /\ prediction = <<>>
    /\ w = 1
    /\ h \in 1..MaxColourCells
    /\ est_label \in [1..h -> 0..(NCLASSES - 1)]
    /\ mask \in [1..h -> BOOLEAN]
    /\ color_label = <<>>
    /\ E = <<>>
    /\ W = <<>>
    /\ thres = 0
    /\ conf = <<>>
    /\ mask_in = <<>>
    /\ TARGET_SIZE = 0
    /\ ki = 0
    /\ ipc = "colour"

colourFixed == <<loopVars, datasetVars, stdVars, loadVars, prediction, mask, w, h, E, W,
                 est_label, thres, conf, mask_in, TARGET_SIZE, ki>>

\* lines 780-783 and 512-522
ColourPaint ==
    /\ ipc = "colour"
    /\ color_label' = Painted(est_label, ClassLabelColormap)
    /\ ipc' = "blacken"
    /\ UNCHANGED colourFixed

\* lines 524-531 (do_alpha is False)
ColourBlacken ==
    /\ ipc = "blacken"
    /\ color_label' = Blacken(color_label, mask)
    /\ ipc' = "coloured"
    /\ UNCHANGED colourFixed

NextColour ==
    \/ ColourPaint
    \/ ColourBlacken

SpecColour == InitColour /\ [][NextColour]_vars

\* --------------------------------------------------- claims on SpecColour
\* the palette of line 780 as it is documented: ten colours, as <<R, G, B>>
PaletteRGB ==
    << <<51, 102, 204>>, <<220, 57, 18>>, <<255, 153, 0>>, <<16, 150, 24>>,
       <<153, 0, 153>>, <<0, 153, 198>>, <<221, 68, 119>>, <<102, 170, 0>>,
       <<184, 46, 46>>, <<49, 99, 149>> >>

\* the number of palette entries left by the truncation to NCLASSES
PaletteLength == IF NCLASSES < 10 THEN NCLASSES ELSE 10

\* C16: in the colour image every pixel whose raw value is 0 is black, and
\* every other pixel has the palette entry at index (label mod palette
\* length) of the 10-colour palette truncated to NCLASSES entries; so two
\* pixels with the same label and the same raw-zero test have one colour.
C16_PaletteLookup ==
    ipc = "coloured" =>
        /\ \A p \in DOMAIN est_label :
              color_label[p] =
                  IF mask[p] THEN <<0, 0, 0>>
                  ELSE PaletteRGB[(est_label[p] % PaletteLength) + 1]
        /\ \A p, q \in DOMAIN est_label :
              (est_label[p] = est_label[q] /\ mask[p] = mask[q])
                  => color_label[p] = color_label[q]

\* C16 witness: with more classes than palette entries, a pixel of label 10
\* has the first colour, and a pixel with raw value 0 is black.
C16_Witness ==
    /\ ipc = "coloured"
    /\ NCLASSES > 10
    /\ \E p \in DOMAIN est_label :
          est_label[p] = 10 /\ ~mask[p] /\ color_label[p] = <<51, 102, 204>>
    /\ \E p \in DOMAIN est_label : mask[p] /\ color_label[p] = <<0, 0, 0>>


\* ======================================================================
\* Spec: the order of oracle passes, session release and artifact writes
\* ======================================================================
\* the steps of the loop body that follow the passes of the current file
AfterPasses ==
    {"write_prob_npz", "write_prob_tif", "postprocess", "write_mask",
     "write_conf", "write_var", "write_overlay", "write_colour"}

\* the passes of file f are complete and its session was released once
PassedAndReleased(f) == calls[f] = PassesNeeded /\ cleared[f] = 1

\* what holds of the counts of oracle calls and session releases in a state
OrderInState ==
    /\ pc \in AfterPasses => PassedAndReleased(Cur)
    /\ \A f \in Paths : Processed(f) => PassedAndReleased(f)
    /\ \A f \in Paths : Skipped(f) => calls[f] = 0 /\ cleared[f] = 0
    /\ pc \in {"check", "load", "predict"} =>
          /\ calls[Cur] = 0
          /\ \A i \in 1..counter :
                calls[sample_filenames[i]] > 0 => cleared[sample_filenames[i]] = 1

\* what holds of a step of one run of the script
OrderInStep ==
    /\ fs' # fs =>
          /\ pc \in AfterPasses
          /\ PassedAndReleased(Cur)
          /\ UNCHANGED <<calls, cleared>>
    /\ (run' = run /\ <<calls, cleared>>' # <<calls, cleared>>) =>
          /\ pc = "predict"
          /\ \A f \in Paths \ {Cur} :
                calls'[f] = calls[f] /\ cleared'[f] = cleared[f]
          /\ cleared[Cur] = 0
          /\ \/ /\ calls'[Cur] = PassesNeeded
                /\ cleared'[Cur] = 1
                /\ pc' \in AfterPasses
             \/ /\ calls'[Cur] < PassesNeeded
                /\ cleared'[Cur] = 0
                /\ pc' = "aborted"

\* C17: for every processed image the oracle makes all its passes (21 in the
\* binary path, 1 in the multiclass path), then the session is released
\* exactly once, then the artifacts are written; the release precedes the
\* first pass of the next image; a skipped file has no pass and no release.
C17_PassesThenClearThenWrites == [][OrderInStep /\ OrderInState']_vars

\* C17 witness: in the binary path one file of the run was skipped and a
\* later one processed with 21 passes and one release.
C17_Witness ==
    /\ NCLASSES = 1
    /\ \E f, g \in Paths :
          /\ Skipped(f)
          /\ Processed(g)
          /\ calls[f] = 0
          /\ cleared[f] = 0
          /\ calls[g] = 21
          /\ cleared[g] = 1


\* ======================================================================
\* SpecBin: which branch chooses the threshold
\* ======================================================================
\* the combined map, recomputed from the ensemble
ProbMap == [p \in Pixels |-> Prob(p)]

\* twice the dynamic range of a finite map, to compare with Unit (= 1.0)
TwiceRange == 2 * (MaxOf(ProbMap) - MinOf(ProbMap))

\* C18: for a map of numbers, when max - min > 0.5 the threshold is the
\* Otsu value if that is at most 0.75 and 0.75 otherwise; when max - min
\* <= 0.5 (exactly 0.5 and constant maps included) the threshold is 0.75;
\* and the cleaned mask of an all-zero map is all zeros.  The Otsu branch
\* is compared in the state the choice leaves; no later step assigns thres.
C18_BranchByRange ==
    (ThresholdChosen /\ \A p \in Pixels : Finite(Prob(p))) =>
        /\ (ipc = "confidence" /\ TwiceRange > Unit) =>
              thres = IF 4 * ThresholdOtsu(ProbMap) <= 3 * Unit
                      THEN ThresholdOtsu(ProbMap)
                      ELSE (3 * Unit) \div 4
        /\ TwiceRange <= Unit => 4 * thres = 3 * Unit
        /\ (ipc = "finished" /\ \A p \in Pixels : Prob(p) = 0) =>
              \A p \in Pixels : est_label[p] = 0

\* C18 witness: a map whose range is exactly 0.5 and whose Otsu value is
\* not 0.75 got the default threshold 0.75.
C18_Witness ==
    /\ ThresholdChosen
    /\ \A p \in Pixels : Finite(Prob(p))
    /\ TwiceRange = Unit
    /\ 4 * ThresholdOtsu(ProbMap) # 3 * Unit
    /\ 4 * thres = 3 * Unit


\* ======================================================================
\* SpecTTA: the sizes of the weights
\* ======================================================================
\* Weights are kept as their squares num/den, all positive, so a < b on the
\* weights is a.num * b.den < b.num * a.den on the squares.
WeightLess(a, b) == a.num * b.den < b.num * a.den
\* weight <= 0.2, that is weight squared <= 1/25
AtMostFifth(a) == 25 * a.num <= a.den

\* the members 1..10 and 11..20, as positions in the lists
ShiftedMembers == 2..(1 + 2 * NShifts)
\* the step of the schedule that member i takes its offset from
StepOf(i) == (i - 2) % NShifts

\* of two shifted members the one with the larger offset weighs less
LargerOffsetWeighsLess ==
    \A i, j \in ShiftedMembers :
        Offset9(StepOf(i)) < Offset9(StepOf(j)) => WeightLess(W[j], W[i])

\* the unshifted member's weight 1 exceeds every other weight
UnshiftedWeighsMost ==
    /\ W[1].num = W[1].den
    /\ \A i \in ShiftedMembers : WeightLess(W[i], W[1])

\* C19 (as claimed): for every TARGET_SIZE[0] the shift weights decrease
\* strictly as the offset increases, every shifted member's weight is at
\* most 0.2, and the unshifted member's weight 1 is strictly the largest.
C19_ShiftWeightsAtMostFifth ==
    Built =>
        /\ LargerOffsetWeighsLess
        /\ \A i \in ShiftedMembers : AtMostFifth(W[i])
        /\ UnshiftedWeighsMost

\* C19 (amended): the shift weights decrease strictly as the offset
\* increases and the unshifted member's weight 1 is strictly the largest;
\* the first shifted weight of each direction is exactly 0.2; when
\* TARGET_SIZE[0] is at least 100 the weights fall along the schedule and
\* all are at most 0.2; when TARGET_SIZE[0] is below 100 the schedule
\* descends from 100, the weights grow along it and all but the first of
\* each direction exceed 0.2.
C19_ShiftWeightsByTargetSize ==
    Built =>
        /\ LargerOffsetWeighsLess
        /\ UnshiftedWeighsMost
        /\ \A i \in ShiftedMembers : StepOf(i) = 0 => 25 * W[i].num = W[i].den
        /\ TARGET_SIZE >= 100 =>
              /\ \A i \in ShiftedMembers : AtMostFifth(W[i])
              /\ \A i, j \in ShiftedMembers :
                    StepOf(i) < StepOf(j) => WeightLess(W[j], W[i])
        /\ TARGET_SIZE < 100 =>
              /\ \A i \in ShiftedMembers : StepOf(i) > 0 => ~AtMostFifth(W[i])
              /\ \A i, j \in ShiftedMembers :
                    StepOf(i) < StepOf(j) => WeightLess(W[i], W[j])

\* C19 witness: a complete ensemble for a TARGET_SIZE[0] below 100 whose
\* last shifted member weighs more than 0.2 and less than 1.
C19_Witness ==
    /\ Built
    /\ TARGET_SIZE < 100
    /\ ~AtMostFifth(W[1 + NShifts])
    /\ WeightLess(W[1 + NShifts], W[1])


\* ======================================================================
\* SpecRoll: the inputs np.roll(image, int(k)) and np.roll(image, -int(k))
\* of the shifted members (lines 630-638)
\* ======================================================================
\* The standardized image has shape (H, W, C); its elements are listed in
\* C order, the channel index running fastest.  Every element carries its
\* own position as value, so that a rolled copy shows where each of its
\* elements comes from.  np.roll takes the shift modulo the number of
\* elements, so the small H and W stand for any size.

\* H and W range over 1..MaxRollSide
MaxRollSide == 2

\* the channel counts of the standardized image: a 1-band file kept as
\* (H, W, 1), the 3 bands of the 3-band loader, N_DATA_BANDS or
\* N_DATA_BANDS+1 bands of the 4-band loader (lines 462, 464)
RollChannels == {1, 3, 4, 5}

RollShapes ==
    {sh \in [1..3 -> 1..5] :
        sh[1] <= MaxRollSide /\ sh[2] <= MaxRollSide /\ sh[3] \in RollChannels}

Numbered(sh) == [shape |-> sh, px |-> [i \in 1..Prod(sh) |-> i]]

\* np.roll(a, shift) with axis=None: the array is flattened, element i
\* moves to position (i + shift) mod size, the shape is restored
Roll(a, shift) ==
    [shape |-> a.shape,
     px |-> [j \in DOMAIN a.px |-> a.px[((j - 1 - shift) % Len(a.px)) + 1]]]

InitRoll ==
    /\ DatasetIdle
    /\ LoopIdle
    /\ LoadIdle
    /\ MultiIdle
    /\ image \in {Numbered(sh) : sh \in RollShapes}
    /\ img = <<>>
    /\ spc = "idle"
    /\ w = 0
    /\ h = 0
    /\ E = <<>>
    /\ W = <<>>
    /\ est_label = <<>>
    /\ thres = 0
    /\ conf = <<>>
    /\ mask_in = <<>>
    /\ TARGET_SIZE \in TargetSizes
    /\ ki = 0
    /\ ipc = "roll_forward"

rollFixed == <<loopVars, datasetVars, stdVars, loadVars, multiVars, TARGET_SIZE, w, h, W,
               est_label, thres, conf, mask_in>>

\* line 632: the input of one member of the first k loop
RollForward ==
    /\ ipc = "roll_forward"
    /\ ki < NShifts
    /\ E' = Append(E, Roll(image, IntOf(Offset9(ki))))
    /\ ki' = ki + 1
    /\ UNCHANGED ipc
    /\ UNCHANGED rollFixed

\* the first loop is exhausted, the second begins (line 635)
RollTurn ==
    /\ ipc = "roll_forward"
    /\ ki = NShifts
    /\ ki' = 0
    /\ ipc' = "roll_backward"
    /\ UNCHANGED E
    /\ UNCHANGED rollFixed

\* line 637: the input of one member of the second k loop
RollBackward ==
    /\ ipc = "roll_backward"
    /\ ki < NShifts
    /\ E' = Append(E, Roll(image, 0 - IntOf(Offset9(ki))))
    /\ ki' = ki + 1
    /\ UNCHANGED ipc
    /\ UNCHANGED rollFixed

\* the second loop is exhausted (line 640)
RollEnd ==
    /\ ipc = "roll_backward"
    /\ ki = NShifts
    /\ ipc' = "rolled"
    /\ UNCHANGED <<E, ki>>
    /\ UNCHANGED rollFixed

NextRoll ==
    \/ RollForward
    \/ RollTurn
    \/ RollBackward
    \/ RollEnd

SpecRoll == InitRoll /\ [][NextRoll]_vars

\* ----------------------------------------------------- claims on SpecRoll
\* the number of channels and of pixels of the image
Channels == image.shape[3]
PixelCount == image.shape[1] * image.shape[2]

\* element ch (0-based) of the channel vector of pixel P (0-based)
Elem(a, P, ch) == a.px[P * Channels + ch + 1]

\* pixel P of the rolled array a carries the channel vector of pixel S of
\* the image, channel by channel
CarriesPixel(a, P, S) ==
    \A ch \in 0..(Channels - 1) : Elem(a, P, ch) = Elem(image, S, ch)

\* the rolled array b undoes the rolled array a: following an element
\* through a and then through b leads back to where it was
Undoes(a, b) == \A j \in DOMAIN a.px : a.px[b.px[j]] = j

\* C21: every shifted input is the image cyclically shifted by whole
\* pixels: every pixel of it carries the unchanged channel vector of some
\* pixel of the image, for every offset of the schedule and every channel
\* count in {1,3,4,5}; and the shift by -offset undoes the shift by +offset.
C21_WholePixelShifts ==
    ipc = "rolled" =>
        /\ \A m \in 1..(2 * NShifts) :
              \A P \in 0..(PixelCount - 1) :
                 \E S \in 0..(PixelCount - 1) : CarriesPixel(E[m], P, S)
        /\ \A i \in 1..NShifts : Undoes(E[i], E[i + NShifts])


\* ======================================================================
\* Spec: which files of the sample directory the loop visits
\* ======================================================================
\* the run went through its whole listing without an uncaught error
RunCompleted == pc = "done"

\* the loop of this run dealt with f: processed it, or skipped it
Visited(f) == Processed(f) \/ Skipped(f)

\* C22: in a run that completes, every .jpg and every .png file of the
\* sample directory is visited by the per-file loop (processed, or skipped
\* because its mask exists), also when the directory holds both formats.
C22_EveryImageVisited ==
    RunCompleted => \A f \in inputs : Visited(f)


\* ======================================================================
\* Spec: the mask as the sign that a file is done
\* ======================================================================
\* the artifacts other than the mask that the path in use writes for f:
\* binary, the probability map (npz and tif), the confidence and variance
\* maps and the overlay; multiclass, the confidence map and the colour image
OtherArtifacts(f) ==
    IF NCLASSES = 1
    THEN /\ Has(f, "probs", "prob")
         /\ Has(f, "probs", "probtif")
         /\ Has(f, "conf_var", "conf")
         /\ Has(f, "conf_var", "var")
         /\ Has(f, "masked", "overlay")
    ELSE /\ Has(f, "conf_var", "conf")
         /\ Has(f, "masked", "colour")

\* C23: across any sequence of runs, runs stopped by an error part-way
\* through a file included, whenever a run has ended and the mask of an
\* input exists, the other artifacts of that input exist as well; so a file
\* that a run skips because its mask exists has all its artifacts.
C23_MaskMeansComplete ==
    /\ RunEnded => \A f \in inputs : Exists(Segfile(f)) => OtherArtifacts(f)
    /\ \A f \in inputs : Skipped(f) => OtherArtifacts(f)

\* ======================================================================
\* Spec: the output directories after the setup step
\* ======================================================================
\* C24: once the setup step is over, the four subdirectories masks, masked,
\* conf_var and probs exist, whichever of them existed before, so that
\* every artifact write finds its directory.
C24_FourDirectories ==
    pc # "setup" => OutDirs \subseteq dirs


\* ======================================================================
\* SpecOneHot: model_training/make_dataset.py, the label image of one
\* augmented pair in the 1-3 band path, from line 296 to line 326, with no
\* REMAP_CLASSES defined
\* ======================================================================
\* The label image l is a uint8 array of shape (nx, ny), its elements in
\* row order; the optional median filter of lines 300-301 gives another
\* such array.  NCLASSES is the configured number of classes.

\* a label image has at most MaxLabelCells pixels with values 0..MaxLabel;
\* NCLASSES ranges over 1..MaxDatasetClasses
MaxLabelCells == 3
MaxLabel == 4
MaxDatasetClasses == 3

LabelShapes ==
    {sh \in [1..2 -> 1..MaxLabelCells] : sh[1] * sh[2] <= MaxLabelCells}

LabelImages ==
    UNION {[shape : {sh}, px : [1..(sh[1] * sh[2]) -> 0..MaxLabel]] : sh \in LabelShapes}

\* np.unique(l): the values present
Unique(a) == {a.px[i] : i \in DOMAIN a.px}

\* lines 305-306: if np.min(l)==1: l -= 1
ShiftedDown(a) ==
    IF MinPx(a) = 1
    THEN [shape |-> a.shape, px |-> [i \in DOMAIN a.px |-> a.px[i] - 1]]
    ELSE a

\* lines 307-308: if NCLASSES==1: l[l>0]=1
Binary(a) ==
    IF NCLASSES = 1
    THEN [shape |-> a.shape, px |-> [i \in DOMAIN a.px |-> IF a.px[i] > 0 THEN 1 ELSE a.px[i]]]
    ELSE a

\* line 314: l[l>NCLASSES]=NCLASSES
Clipped(a) ==
    [shape |-> a.shape,
     px |-> [i \in DOMAIN a.px |-> IF a.px[i] > NCLASSES THEN NCLASSES ELSE a.px[i]]]

\* lines 319-321: zeros of shape (nx, ny, NCLASSES) with channel v set to
\* ones; channels are numbered from 0, v is not negative
OneChannel(a, v) ==
    [shape |-> a.shape \o <<NCLASSES>>,
     px |-> [i \in DOMAIN a.px |-> [c \in 0..(NCLASSES - 1) |-> IF c = v THEN 1 ELSE 0]]]

\* lines 323-326: (np.arange(NCLASSES) == 1+l[...,None]-1).astype(int)
OneHot(a) ==
    [shape |-> a.shape \o <<NCLASSES>>,
     px |-> [i \in DOMAIN a.px |-> [c \in 0..(NCLASSES - 1) |-> IF c = a.px[i] THEN 1 ELSE 0]]]

\* np.squeeze of a stack with one channel: the axes of length 1 go, the
\* elements stay
Squeeze(a) ==
    [shape |-> SelectSeq(a.shape, LAMBDA n : n # 1),
     px |-> [i \in DOMAIN a.px |-> a.px[i][0]]]

InitOneHot ==
    /\ NCLASSES \in 1..MaxDatasetClasses
    /\ LoopParked("image")
    /\ ImageIdle
    /\ UnitIdle
    /\ l \in LabelImages
    /\ lstack = <<>>
    /\ dpc = "shift"

oneHotFixed == <<loopVars, imageVars, unitVars>>

\* lines 304-306
DsShift ==
    /\ dpc = "shift"
    /\ l' = ShiftedDown(l)
    /\ dpc' = "binary"
    /\ UNCHANGED <<oneHotFixed, lstack>>

\* lines 307-308
DsBinary ==
    /\ dpc = "binary"
    /\ l' = Binary(l)
    /\ dpc' = "clip"
    /\ UNCHANGED <<oneHotFixed, lstack>>

\* line 314
DsClip ==
    /\ dpc = "clip"
    /\ l' = Clipped(l)
    /\ dpc' = "encode"
    /\ UNCHANGED <<oneHotFixed, lstack>>

\* lines 318-326; the assignment of line 321 raises IndexError, outside
\* any try block, when the single value present is not a channel index
DsEncode ==
    /\ dpc = "encode"
    /\ IF Cardinality(Unique(l)) = 1
       THEN LET v == CHOOSE u \in Unique(l) : TRUE
            IN IF v < NCLASSES
               THEN lstack' = OneChannel(l, v) /\ dpc' = "encoded"
               ELSE lstack' = <<>> /\ dpc' = "IndexError"
       ELSE lstack' = OneHot(l) /\ dpc' = "encoded"
    /\ UNCHANGED <<oneHotFixed, l>>

\* lines 344-358: np.savez of lstack when NCLASSES > 1, of
\* np.squeeze(lstack) otherwise
DsStore ==
    /\ dpc = "encoded"
    /\ lstack' = IF NCLASSES > 1 THEN lstack ELSE Squeeze(lstack)
    /\ dpc' = "stored"
    /\ UNCHANGED <<oneHotFixed, l>>

NextOneHot ==
    \/ DsShift
    \/ DsBinary
    \/ DsClip
    \/ DsEncode
    \/ DsStore

SpecOneHot == InitOneHot /\ [][NextOneHot]_vars

\* --------------------------------------------------- claims on SpecOneHot
\* the number of channels of pixel i of the stack that are 1
Ones(i) == Cardinality({c \in DOMAIN lstack.px[i] : lstack.px[i][c] = 1})

\* C25: for every label image and every NCLASSES >= 1 the one-hot stack
\* has shape (nx, ny, NCLASSES) and every pixel has exactly one channel
\* equal to 1; no label value left by the clipping indexes a channel
\* outside 0..NCLASSES-1 or leaves a pixel with all channels 0.
C25_ExactlyOneChannel ==
    /\ dpc \in {"encode", "encoded", "stored", "IndexError"} =>
          \A i \in DOMAIN l.px : l.px[i] \in 0..(NCLASSES - 1)
    /\ dpc # "IndexError"
    /\ dpc = "encoded" => \A i \in DOMAIN l.px : Ones(i) = 1
    /\ dpc = "stored" => lstack.shape = l.shape \o <<NCLASSES>>

====
